---- MODULE Spec2Model ----
(***************************************************************************)
(* Session lifecycle, point awards and local/remote state of the NoCorn    *)
(* browser extension: the popup (scripts/blocked.js, class NoCornPopup),   *)
(* the background worker (background.js), the backend connection, the      *)
(* Supabase security system and the secure popup.                          *)
(*                                                                         *)
(* Time is counted in minutes (the code counts milliseconds; every         *)
(* duration the code uses is a whole number of minutes).                   *)
(***************************************************************************)
EXTENDS Integers, Sequences, FiniteSets, Bags, TLC

\* ------------------------------------------------------------------ bounds
MaxClockHalfDays == 3      \* the clock stops advancing after this many half days
MaxDuration == 1           \* longest session duration (days) the popup is given
MaxAttemptClicks == 3      \* clicks on the emergency button per session
MaxScore == 400            \* no handler runs that would take a score above this
MaxStreak == 3             \* nor one that would take a streak above this
TickDuration == 3          \* duration (days) of the session the alarm ticks on
MaxTicks == 5              \* alarm ticks counted on one session
LocalAwards == 3           \* local awards counted before a reconnection
MaxRemoteSessions == 2     \* rows of user_sessions
MaxCalls == 6              \* calls of validateAndAwardPoints in flight at once
MaxBlocks == 6             \* rows of blockchain_blocks
MaxSecureAwards == 2       \* add_site awards made in the secure popup's session
MaxRateSteps == 3          \* steps of the clock the rate limiter is watched over

\* --------------------------------------------------------- program constants
Minute == 1
Hour == 60 * Minute
Day == 24 * Hour
HalfDay == 12 * Hour

AddSitePoints == 10
StartPointsPerDay == 50
CompletePointsPerDay == 100
DailyBonusPerDay == 10
ResistPoints == 25
PanicPoints == 25
EmergencyPenaltyPoints == 500
EmergencyThreshold == 3
MinDays == 1
MaxDays == 365

Sites == {"a.com", "b.com"}

VARIABLES
  now,        \* Date.now(), in minutes
  storage,    \* chrome.storage.local
  popup,      \* the NoCornPopup instance (fields of `this` and what it shows)
  rules,      \* chrome.declarativeNetRequest dynamic rules (the domains redirected)
  alarm,      \* whether the 'sessionUpdate' alarm is scheduled
  inbox,      \* chrome.runtime messages sent to the background, not yet handled
  remote,     \* the Supabase tables of this user
  online,     \* whether calls to the backend succeed
  secure,     \* the SecureNoCornPopup instance
  security,   \* its SupabaseSecuritySystem: rateLimits and the calls in flight
  pending,    \* what each updateSession() in flight read from storage, not yet written
  inflight,   \* what each updateScore() in flight read from the backend, not yet written
  hist        \* history variables (not program state), kept by each specification

vars ==
  <<now, storage, popup, rules, alarm, inbox, remote, online, secure, security, pending,
    inflight, hist>>

\* ------------------------------------------------------------------ helpers
Max(a, b) == IF a >= b THEN a ELSE b
Min(a, b) == IF a <= b THEN a ELSE b
Null == <<>>
Some(x) == <<x>>
Val(o) == o[1]
Includes(seq, x) == \E i \in 1..Len(seq) : seq[i] = x
Filter(seq, x) == SelectSeq(seq, LAMBDA s : s # x)
Range(seq) == {seq[i] : i \in 1..Len(seq)}

\* Math.floor((t - startTime) / (24 * 60 * 60 * 1000)), for t >= startTime
DaysSince(startTime, t) == (t - startTime) \div Day

\* what the reason field of an emergency form can hold
Reasons == {"", "urge"}

DefaultStats == [totalCleanDays |-> 0, bestStreak |-> 0, sessionsCompleted |-> 0]

\* the world a handler reads and writes
World ==
  [p |-> popup, s |-> storage, r |-> rules, a |-> alarm, m |-> inbox, db |-> remote,
   sp |-> secure, ss |-> security]
Bounded(w) ==
  /\ w.p.totalScore <= MaxScore /\ w.s.totalScore <= MaxScore
  /\ w.db.total_score <= MaxScore /\ Len(w.db.sessions) <= MaxRemoteSessions
  /\ w.p.currentStreak <= MaxStreak /\ w.s.currentStreak <= MaxStreak
  /\ BagCardinality(w.ss.calls) <= MaxCalls /\ Len(w.db.blocks) <= MaxBlocks
Commit(w) ==
  /\ Bounded(w)
  /\ popup' = w.p
  /\ storage' = w.s
  /\ rules' = w.r
  /\ alarm' = w.a
  /\ inbox' = w.m
  /\ remote' = w.db
  /\ secure' = w.sp
  /\ security' = w.ss

\* ---------------------------------------------------------- BackendConnection
\* updateScore(points): newScore = Math.max(0, total_score + points), written back
UpdateScore(db, points) == [db EXCEPT !.total_score = Max(0, @ + points)]

\* the UNIQUE(user_id, site) constraint of user_blocked_sites
SiteExists(db, site) == \E i \in 1..Len(db.sites) : db.sites[i].site = site

\* addBlockedSite(site): insert the row, then updateScore(10, 'add_site')
AddBlockedSite(db, site) ==
  UpdateScore([db EXCEPT !.sites = Append(@, [site |-> site, is_active |-> TRUE])],
              AddSitePoints)

\* getBlockedSites(): the active rows, newest first, mapped to their site
GetBlockedSites(db) ==
  LET act == SelectSeq(db.sites, LAMBDA row : row.is_active)
  IN [i \in 1..Len(act) |-> act[Len(act) + 1 - i].site]

\* createSession without the call of updateScore
CreateSessionNoAward(db, session) ==
  [db EXCEPT !.sessions = Append(@,
     [id |-> Len(db.sessions) + 1,
      start_time |-> session.startTime, end_time |-> session.endTime,
      duration_days |-> session.duration, blocked_sites |-> session.blockedSites,
      status |-> "active", emergency_attempts |-> 0])]

\* createSession(sessionData): insert an 'active' row, then updateScore(duration * 50)
CreateSession(db, session) ==
  UpdateScore(
    [db EXCEPT !.sessions = Append(@,
       [id |-> Len(db.sessions) + 1,
        start_time |-> session.startTime, end_time |-> session.endTime,
        duration_days |-> session.duration, blocked_sites |-> session.blockedSites,
        status |-> "active", emergency_attempts |-> 0])],
    session.duration * StartPointsPerDay)

\* ------------------------------------------------- declarativeNetRequest rules
\* blockedSites.map((site, index) => ({ id: index + 1, ... urlFilter of site ... }))
BlockingRules(blockedSites) ==
  {[id |-> index, site |-> blockedSites[index]] : index \in 1..Len(blockedSites)}
RuleSites(installed) == {rule.site : rule \in installed}

\* removeRuleIds: Array.from({length: 100}, (_, i) => i + 1)
PopupRuleIds == 100
RemoveRuleIds(installed) == {rule \in installed : rule.id \notin 1..PopupRuleIds}

\* updateDynamicRules({removeRuleIds, addRules}) fails, changing nothing, when an
\* added rule's id is the id of a rule that stays installed
CanAddRules(installed, added) ==
  \A old \in installed : \A new \in added : old.id # new.id

\* --------------------------------------------------------------- NoCornPopup
ClosedPopup ==
  [open |-> FALSE, backend |-> FALSE, totalScore |-> 0, currentStreak |-> 0,
   blockedSites |-> <<>>, activeSession |-> Null, stats |-> Null,
   view |-> "inactive", modal |-> "none", offlineMode |-> FALSE]

\* the penalty without Math.max(0, ...)
EmergencyPenaltyUnclamped(score) == score - EmergencyPenaltyPoints

\* performEmergencyDisable: this.totalScore = Math.max(0, this.totalScore - 500)
EmergencyPenalty(score) == Max(0, score - EmergencyPenaltyPoints)

\* completeSession() of the popup. this.stats is only set by loadLocalData: without
\* it the handler throws after the streak update and nothing else is done.
PopupCompleteSession(w) ==
  LET days == DaysSince(Val(w.p.activeSession).startTime, now)
      streak == w.p.currentStreak + days
      score == w.p.totalScore + days * CompletePointsPerDay
  IN IF w.p.stats = Null
     THEN [w EXCEPT !.p.currentStreak = streak]
     ELSE LET st == Val(w.p.stats)
              stats == [totalCleanDays |-> st.totalCleanDays + days,
                        bestStreak |-> Max(st.bestStreak, streak),
                        sessionsCompleted |-> st.sessionsCompleted + 1]
          IN [w EXCEPT !.p.currentStreak = streak,
                       !.p.stats = Some(stats),
                       !.p.totalScore = score,
                       !.p.activeSession = Null,
                       !.p.view = "inactive",
                       !.r = RemoveRuleIds(w.r),
                       !.s.currentStreak = streak,
                       !.s.totalScore = score,
                       !.s.stats = stats,
                       !.s.activeSession = Null]

\* updateDisplay() -> updateBlockStatus(): shows the session or the start controls,
\* and completes a session whose remaining time is <= 0
UpdateDisplay(w) ==
  IF w.p.activeSession # Null
  THEN IF Val(w.p.activeSession).endTime - now > 0
       THEN [w EXCEPT !.p.view = "active"]
       ELSE PopupCompleteSession(w)
  ELSE [w EXCEPT !.p.view = "inactive"]

LoadLocalData(w) ==
  [w EXCEPT !.p.currentStreak = w.s.currentStreak,
            !.p.totalScore = w.s.totalScore,
            !.p.blockedSites = w.s.blockedSites,
            !.p.activeSession = w.s.activeSession,
            !.p.stats = Some(w.s.stats)]

\* loadData(): the backend's values overwrite the popup's and the local cache;
\* any failure falls back to loadLocalData()
LoadData(w) ==
  IF w.p.backend /\ online
  THEN LET sites == GetBlockedSites(w.db)
       IN [w EXCEPT !.p.currentStreak = w.db.current_streak,
                    !.p.totalScore = w.db.total_score,
                    !.p.blockedSites = sites,
                    !.s.currentStreak = w.db.current_streak,
                    !.s.totalScore = w.db.total_score,
                    !.s.blockedSites = sites]
  ELSE LoadLocalData(w)

\* what the user can type into the new-site field, as tokens
RawInputs == {<<>>, <<"a.com">>, <<"https://", "www.", "a.com", "/x">>, <<"b.com">>}
OneSiteInputs == {<<>>, <<"https://", "www.", "a.com", "/x">>}
StripLeading(raw, tokens) == IF raw # <<>> /\ raw[1] \in tokens THEN Tail(raw) ELSE raw
\* site.replace(/^https?:\/\//, '').replace(/^www\./, '').split('/')[0]
CleanSite(raw) ==
  LET host == StripLeading(StripLeading(raw, {"http://", "https://"}), {"www."})
  IN IF host = <<>> \/ host[1] \notin Sites THEN "" ELSE host[1]

NewSession(sites, days) ==
  [startTime |-> now, endTime |-> now + days * Day, duration |-> days,
   blockedSites |-> sites, emergencyAttempts |-> 0, lastDailyBonus |-> 0]

\* init(): a new popup instance; the backend connection is made when it can be
OpenPopup ==
  /\ ~popup.open
  /\ LET w0 == [World EXCEPT !.p = [ClosedPopup EXCEPT !.open = TRUE, !.backend = online,
                                                       !.offlineMode = ~online]]
     IN Commit(UpdateDisplay(LoadData(w0)))
  /\ UNCHANGED <<now, online>>

ClosePopup ==
  /\ popup.open
  /\ popup' = ClosedPopup
  /\ UNCHANGED <<now, storage, rules, alarm, inbox, remote, online, secure, security>>

\* onAuthSuccess(user): the open popup connects to the backend and reloads
Reconnect ==
  /\ popup.open /\ ~popup.backend /\ online /\ popup.modal = "none"
  /\ LET w0 == [World EXCEPT !.p.backend = TRUE]
     IN Commit(UpdateDisplay(LoadData(w0)))
  /\ UNCHANGED <<now, online>>

\* addSite() without the test of the popup's list
AddSiteStepUnchecked(w, raw) ==
  LET cleanSite == CleanSite(raw)
  IN IF raw = <<>> THEN w
     ELSE IF w.p.backend
     THEN IF ~online \/ SiteExists(w.db, cleanSite) THEN w
          ELSE LET db == AddBlockedSite(w.db, cleanSite)
               IN UpdateDisplay([w EXCEPT !.db = db,
                                          !.p.totalScore = db.total_score,
                                          !.s.totalScore = db.total_score,
                                          !.p.blockedSites = GetBlockedSites(db),
                                          !.s.blockedSites = GetBlockedSites(db)])
     ELSE UpdateDisplay([w EXCEPT !.p.blockedSites = Append(@, cleanSite),
                                  !.s.blockedSites = Append(w.p.blockedSites, cleanSite),
                                  !.p.totalScore = @ + AddSitePoints,
                                  !.s.totalScore = w.p.totalScore + AddSitePoints])

\* addSite() with the session's list and the rules following the live list
AddSiteStepSessionFollows(w, raw) ==
  LET cleanSite == CleanSite(raw)
      follow(w1) ==
        IF w1.s.activeSession = Null THEN w1
        ELSE [w1 EXCEPT !.s.activeSession =
                          Some([Val(@) EXCEPT !.blockedSites = w1.s.blockedSites]),
                        !.r = BlockingRules(w1.s.blockedSites)]
  IN IF raw = <<>> \/ Includes(w.p.blockedSites, cleanSite) THEN w
     ELSE IF w.p.backend
     THEN IF ~online \/ SiteExists(w.db, cleanSite) THEN w
          ELSE LET db == AddBlockedSite(w.db, cleanSite)
               IN follow(UpdateDisplay([w EXCEPT !.db = db,
                                          !.p.totalScore = db.total_score,
                                          !.s.totalScore = db.total_score,
                                          !.p.blockedSites = GetBlockedSites(db),
                                          !.s.blockedSites = GetBlockedSites(db)]))
     ELSE follow(UpdateDisplay([w EXCEPT !.p.blockedSites = Append(@, cleanSite),
                                  !.s.blockedSites = Append(w.p.blockedSites, cleanSite),
                                  !.p.totalScore = @ + AddSitePoints,
                                  !.s.totalScore = w.p.totalScore + AddSitePoints]))

\* addSite()
AddSiteStep(w, raw) ==
  LET cleanSite == CleanSite(raw)
  IN IF raw = <<>> \/ Includes(w.p.blockedSites, cleanSite) THEN w
     ELSE IF w.p.backend
     THEN IF ~online \/ SiteExists(w.db, cleanSite) THEN w
          ELSE LET db == AddBlockedSite(w.db, cleanSite)
               IN UpdateDisplay([w EXCEPT !.db = db,
                                          !.p.totalScore = db.total_score,
                                          !.s.totalScore = db.total_score,
                                          !.p.blockedSites = GetBlockedSites(db),
                                          !.s.blockedSites = GetBlockedSites(db)])
     ELSE UpdateDisplay([w EXCEPT !.p.blockedSites = Append(@, cleanSite),
                                  !.s.blockedSites = Append(w.p.blockedSites, cleanSite),
                                  !.p.totalScore = @ + AddSitePoints,
                                  !.s.totalScore = w.p.totalScore + AddSitePoints])

AddSite(inputs) ==
  /\ popup.open /\ popup.modal = "none" /\ inbox = <<>>
  /\ \E raw \in inputs : Commit(AddSiteStep(World, raw))
  /\ UNCHANGED <<now, online>>

\* removeSite(site), from the button of a listed site
RemoveSite ==
  /\ popup.open /\ popup.modal = "none" /\ inbox = <<>>
  /\ \E site \in Range(popup.blockedSites) :
       LET sites == Filter(popup.blockedSites, site)
       IN Commit(UpdateDisplay([World EXCEPT !.p.blockedSites = sites,
                                                !.s.blockedSites = sites]))
  /\ UNCHANGED <<now, online>>

\* what the duration controls can hold: a preset option, or the custom field
PresetDays == 1..MaxDuration
CustomDays == {0, MaxDays + 1} \cup (1..MaxDuration)
OneDay == {MinDays}
OneDayOrInvalid == {0, MinDays, MaxDays + 1}
ValidCustomDays(days) == ~(days = 0 \/ days < MinDays \/ days > MaxDays)

\* startBlockSession(), the confirmation dialog answered yes
StartBlockSessionStep(w, custom, days) ==
  IF w.p.blockedSites = <<>> \/ (custom /\ ~ValidCustomDays(days))
  THEN w
  ELSE LET session == NewSession(w.p.blockedSites, days)
           w1 == [w EXCEPT !.p.activeSession = Some(session)]
           added == BlockingRules(session.blockedSites)
           started(w2) ==
             IF ~CanAddRules(RemoveRuleIds(w2.r), added)
             THEN [w2 EXCEPT !.p.totalScore = w.p.totalScore,
                             !.s.activeSession = Some(session)]
             ELSE UpdateDisplay(
                    [w2 EXCEPT !.s.activeSession = Some(session),
                               !.r = RemoveRuleIds(w2.r) \cup added,
                               !.s.totalScore = w2.p.totalScore,
                               !.m = Append(@, [action |-> "sessionStarted",
                                                session |-> session])])
       IN IF w.p.backend
          THEN IF ~online THEN w1
               ELSE LET db == CreateSession(w.db, session)
                    IN started([w1 EXCEPT !.db = db, !.p.totalScore = db.total_score])
          ELSE started([w1 EXCEPT !.p.totalScore = @ + days * StartPointsPerDay])

StartBlockSession(presets, customs) ==
  /\ popup.open /\ popup.modal = "none" /\ popup.view = "inactive" /\ inbox = <<>>
  /\ \E custom \in BOOLEAN : \E days \in (IF custom THEN customs ELSE presets) :
       Commit(StartBlockSessionStep(World, custom, days))
  /\ UNCHANGED <<now, online>>

\* attemptEmergencyDisable(), from the button shown with an active session
AttemptEmergencyDisableStep(w) ==
  LET session == [Val(w.p.activeSession) EXCEPT !.emergencyAttempts = @ + 1]
  IN [w EXCEPT !.p.activeSession = Some(session),
               !.p.modal = IF session.emergencyAttempts >= EmergencyThreshold
                           THEN "form" ELSE "intervention",
               !.s.activeSession = Some(session)]

\* the emergency button, clicked until the session has counted `clicks` attempts
AttemptEmergencyDisableUpTo(clicks) ==
  /\ popup.open /\ popup.modal = "none" /\ popup.view = "active" /\ inbox = <<>>
  /\ popup.activeSession # Null
  /\ Val(popup.activeSession).emergencyAttempts < clicks
  /\ Commit(AttemptEmergencyDisableStep(World))
  /\ UNCHANGED <<now, online>>

AttemptEmergencyDisable == AttemptEmergencyDisableUpTo(MaxAttemptClicks)

\* performEmergencyDisable(reason), from the form's confirm button
PerformEmergencyDisable(w, reason) ==
  LET score == EmergencyPenalty(w.p.totalScore)
      log == [reason |-> reason, penalty |-> EmergencyPenaltyPoints]
  IN UpdateDisplay([w EXCEPT !.p.currentStreak = 0,
                             !.p.totalScore = score,
                             !.p.activeSession = Null,
                             !.p.modal = "none",
                             !.r = RemoveRuleIds(w.r),
                             !.s.currentStreak = 0,
                             !.s.totalScore = score,
                             !.s.activeSession = Null,
                             !.m = Append(@, [action |-> "emergencyDisable", data |-> log])])

ConfirmEmergencyDisable ==
  /\ popup.open /\ popup.modal = "form"
  /\ \E reason \in Reasons :
       Commit(PerformEmergencyDisable(World, reason))
  /\ UNCHANGED <<now, online>>

CancelEmergencyForm ==
  /\ popup.open /\ popup.modal = "form"
  /\ popup' = [popup EXCEPT !.modal = "none"]
  /\ UNCHANGED <<now, storage, rules, alarm, inbox, remote, online, secure, security>>

\* the intervention's "I'll Stay Strong" button
StayStrong ==
  /\ popup.open /\ popup.modal = "intervention"
  /\ Commit(UpdateDisplay([World EXCEPT !.p.modal = "none",
                                           !.p.totalScore = @ + ResistPoints,
                                           !.s.totalScore = popup.totalScore + ResistPoints]))
  /\ UNCHANGED <<now, online>>

\* the intervention closes itself after 10 seconds
InterventionTimeout ==
  /\ popup.open /\ popup.modal = "intervention"
  /\ popup' = [popup EXCEPT !.modal = "none"]
  /\ UNCHANGED <<now, storage, rules, alarm, inbox, remote, online, secure, security>>

\* triggerPanicMode()
TriggerPanicModeStep(w) ==
  IF w.p.backend
  THEN IF ~online THEN UpdateDisplay(w)
       ELSE LET db == UpdateScore(w.db, PanicPoints)
            IN UpdateDisplay([w EXCEPT !.db = db, !.p.totalScore = db.total_score,
                                       !.s.totalScore = db.total_score])
  ELSE UpdateDisplay([w EXCEPT !.p.totalScore = @ + PanicPoints,
                               !.s.totalScore = w.p.totalScore + PanicPoints])

TriggerPanicMode ==
  /\ popup.open /\ popup.modal = "none" /\ inbox = <<>>
  /\ Commit(TriggerPanicModeStep(World))
  /\ UNCHANGED <<now, online>>

\* ---------------------------------------------------------- NoCornBackground
\* completeSession(session) of the background
CompleteSession(w, session) ==
  LET daysCompleted == DaysSince(session.startTime, now)
      completionBonus == daysCompleted * CompletePointsPerDay
      newStreak == w.s.currentStreak + daysCompleted
      newScore == w.s.totalScore + completionBonus
      stats == [totalCleanDays |-> w.s.stats.totalCleanDays + daysCompleted,
                bestStreak |-> Max(w.s.stats.bestStreak, newStreak),
                sessionsCompleted |-> w.s.stats.sessionsCompleted + 1]
  IN [w EXCEPT !.r = {},
               !.s.currentStreak = newStreak,
               !.s.totalScore = newScore,
               !.s.stats = stats,
               !.s.activeSession = Null,
               !.a = FALSE]

\* Math.floor(hoursElapsed / 24) * 10
DailyBonus(session, t) ==
  (((t - session.startTime) \div Hour) \div 24) * DailyBonusPerDay

\* updateSession() without the write of lastDailyBonus
UpdateSessionBonusNotRecorded(w, data) ==
  IF data.activeSession = Null THEN [w EXCEPT !.a = FALSE]
  ELSE LET activeSession == Val(data.activeSession)
           dailyBonus == DailyBonus(activeSession, now)
       IN IF now >= activeSession.endTime THEN CompleteSession(w, activeSession)
          ELSE IF dailyBonus > activeSession.lastDailyBonus
          THEN [w EXCEPT !.s.totalScore =
                           data.totalScore + dailyBonus - activeSession.lastDailyBonus]
          ELSE w

\* updateSession() adding the bonus to the score storage holds at the write
UpdateSessionAddsToCurrent(w, data) ==
  IF data.activeSession = Null THEN [w EXCEPT !.a = FALSE]
  ELSE LET activeSession == Val(data.activeSession)
           dailyBonus == DailyBonus(activeSession, now)
       IN IF now >= activeSession.endTime THEN CompleteSession(w, activeSession)
          ELSE IF dailyBonus > activeSession.lastDailyBonus
          THEN LET bonusPoints == dailyBonus - activeSession.lastDailyBonus
               IN [w EXCEPT !.s.activeSession =
                              Some([activeSession EXCEPT !.lastDailyBonus = dailyBonus]),
                            !.s.totalScore = w.s.totalScore + bonusPoints]
          ELSE w

\* updateSession(): `data` is what storage held when the handler read it
UpdateSession(w, data) ==
  IF data.activeSession = Null THEN [w EXCEPT !.a = FALSE]
  ELSE LET activeSession == Val(data.activeSession)
           dailyBonus == DailyBonus(activeSession, now)
       IN IF now >= activeSession.endTime THEN CompleteSession(w, activeSession)
          ELSE IF dailyBonus > activeSession.lastDailyBonus
          THEN LET bonusPoints == dailyBonus - activeSession.lastDailyBonus
               IN [w EXCEPT !.s.activeSession =
                              Some([activeSession EXCEPT !.lastDailyBonus = dailyBonus]),
                            !.s.totalScore = data.totalScore + bonusPoints]
          ELSE w

\* the 'sessionUpdate' alarm fires
BgTick ==
  /\ alarm
  /\ Commit(UpdateSession(World, storage))
  /\ UNCHANGED <<now, online>>

\* The alarm fires while an updateSession() is still in flight: each invocation
\* reads storage (the await of chrome.storage.local.get), and goes on from what it
\* read, with the clock of that moment, to its write.
MaxOverlap == 2            \* invocations of updateSession in flight at once
TickRead ==
  /\ alarm /\ Len(pending) < MaxOverlap
  /\ pending' = Append(pending, storage)
  /\ UNCHANGED <<now, storage, popup, rules, alarm, inbox, remote, online, secure, security>>

TickWrite(i) ==
  /\ i \in 1..Len(pending)
  /\ Commit(UpdateSession(World, pending[i]))
  /\ pending' = SubSeq(pending, 1, i - 1) \o SubSeq(pending, i + 1, Len(pending))
  /\ UNCHANGED <<now, online>>

\* checkActiveSession(), when the service worker starts
BgStartup ==
  /\ LET w == World
     IN Commit(IF w.s.activeSession = Null THEN w
                  ELSE IF now >= Val(w.s.activeSession).endTime
                  THEN CompleteSession(w, Val(w.s.activeSession))
                  ELSE [w EXCEPT !.r = BlockingRules(Val(w.s.activeSession).blockedSites),
                                 !.a = TRUE])
  /\ UNCHANGED <<now, online>>

\* handleMessage(message): sessionStarted and emergencyDisable
BgHandleMessage ==
  /\ inbox # <<>>
  /\ LET msg == Head(inbox)
         w == [World EXCEPT !.m = Tail(inbox)]
     IN Commit(IF msg.action = "sessionStarted"
                  THEN [w EXCEPT !.r = BlockingRules(msg.session.blockedSites),
                                 !.a = TRUE]
                  ELSE IF w.s.emergencyLog = Null THEN w
                  ELSE [w EXCEPT !.s.emergencyLog =
                                   Some(Append(Val(@), msg.data))])
  /\ UNCHANGED <<now, online>>

\* ---------------------------------------------------- SupabaseSecuritySystem
\* Both popups work on the rows of one Supabase user. A call of
\* validateAndAwardPoints in flight is a record: what it was called with, the await
\* it is suspended at (stage), and what it has computed so far.
TimestampDrift == 5 * Minute
Abs(x) == IF x < 0 THEN -x ELSE x

\* validateTimestamp(clientTimestamp), and the same test in validate_user_action:
\* the request passes when the two clocks are no more than the drift apart
ValidateTimestampBehindOnly(clientTimestamp) == now - clientTimestamp <= TimestampDrift
ValidateTimestamp(clientTimestamp) == Abs(now - clientTimestamp) <= TimestampDrift
PanicCooldown == 30 * Minute
RateLimits ==
  [add_site |-> [max |-> 5, window |-> 60 * Minute],
   panic_mode |-> [max |-> 3, window |-> 30 * Minute],
   emergency_resist |-> [max |-> 10, window |-> 60 * Minute],
   session_start |-> [max |-> 3, window |-> 24 * Hour]]

InitSecurity == [rateLimits |-> [a \in DOMAIN RateLimits |-> <<>>], calls |-> EmptyBag]

\* the filter with  now - time <= limit.window
ValidAttemptsInclusive(attempts, window, t) ==
  SelectSeq(attempts, LAMBDA time : t - time <= window)

\* the attempts of `attempts` still inside the window at time t
ValidAttempts(attempts, window, t) == SelectSeq(attempts, LAMBDA time : t - time < window)

\* checkRateLimit with the comparison  validAttempts.length > limit.max
CheckRateLimitOneMore(ss, action) ==
  IF action \notin DOMAIN RateLimits THEN [ok |-> TRUE, ss |-> ss]
  ELSE LET limit == RateLimits[action]
           validAttempts == ValidAttempts(ss.rateLimits[action], limit.window, now)
       IN IF Len(validAttempts) > limit.max THEN [ok |-> FALSE, ss |-> ss]
          ELSE [ok |-> TRUE,
                ss |-> [ss EXCEPT !.rateLimits[action] = Append(validAttempts, now)]]

\* checkRateLimit(action): throws (ok = FALSE) or records now
CheckRateLimit(ss, action) ==
  IF action \notin DOMAIN RateLimits THEN [ok |-> TRUE, ss |-> ss]
  ELSE LET limit == RateLimits[action]
           validAttempts == ValidAttempts(ss.rateLimits[action], limit.window, now)
       IN IF Len(validAttempts) >= limit.max THEN [ok |-> FALSE, ss |-> ss]
          ELSE [ok |-> TRUE,
                ss |-> [ss EXCEPT !.rateLimits[action] = Append(validAttempts, now)]]

\* pointRules[action] || 0
BasePoints(action, data) ==
  CASE action = "add_site" -> AddSitePoints
    [] action = "start_session" ->
         (IF data.duration = 0 THEN 1 ELSE data.duration) * StartPointsPerDay
    [] action = "complete_session" ->
         (IF data.daysCompleted = 0 THEN 1 ELSE data.daysCompleted) * CompletePointsPerDay
    [] action = "daily_bonus" -> DailyBonusPerDay
    [] action = "emergency_resist" -> ResistPoints
    [] action = "panic_mode" -> PanicPoints
    [] OTHER -> 0

\* getDiminishingReturnsMultiplier(action), in tenths: the user's row of
\* user_action_counts for the action; no row is an error of .single() and gives 1.0
DiminishingReturnsMultiplier(db, action) ==
  LET rows == SelectSeq(db.action_counts, LAMBDA row : row.action_type = action)
  IN IF Len(rows) # 1 THEN 10
     ELSE LET count == rows[1].action_count
          IN IF count < 10 THEN 10
             ELSE IF count < 50 THEN 8
             ELSE IF count < 100 THEN 6
             ELSE 4

\* calculateSecurePoints: Math.floor(basePoints * multiplier)
CalculateSecurePoints(db, action, data) ==
  (BasePoints(action, data) * DiminishingReturnsMultiplier(db, action)) \div 10

\* getLastBlockHash(): the newest block's hash, '0' without blocks
LastBlockHash(db) ==
  IF db.blocks = <<>> THEN <<"0">> ELSE db.blocks[Len(db.blocks)].block_hash

\* calculateHash over a block whose data leaves the points out
BlockHashWithoutPoints(previousHash, action, points, timestamp) ==
  <<previousHash, action, 0, timestamp>>

\* SimpleBlockchain.calculateHash: a hash of the block's content, modelled by the
\* content itself (distinct contents, distinct hashes)
BlockHash(previousHash, action, points, timestamp) ==
  <<previousHash, action, points, timestamp>>

\* Two blocks made in the same minute differ in their millisecond and nonce: the
\* hash of the n-th block of one content carries n
Salted(db, content) ==
  Append(content, Cardinality({i \in 1..Len(db.blocks) :
                                 SubSeq(db.blocks[i].block_hash, 1, 4) = content}))

\* update_user_score_secure: the clamped total and the transaction row
UpdateUserScoreSecure(db, points, blockHash) ==
  LET new_score == Max(0, db.total_score + points)
  IN [db EXCEPT !.total_score = new_score,
                !.transactions = Append(@, [action_type |-> "score_update",
                                            points_awarded |-> points,
                                            block_hash |-> blockHash])]

\* the data object of a call; 0 and "" stand for a field the caller leaves out
ActionData(site, duration, reason) ==
  [site |-> site, duration |-> duration, daysCompleted |-> 0, reason |-> reason,
   timestamp |-> now]
NewCall(action, data) ==
  [action |-> action, data |-> data, stage |-> "validate", points |-> 0,
   block_hash |-> Null]

Replace(w, c, d) == [w EXCEPT !.ss.calls = (@ (-) SetToBag({c})) (+) SetToBag({d})]
Remove(w, c) == [w EXCEPT !.ss.calls = @ (-) SetToBag({c})]
AtStage(c, stage) == [c EXCEPT !.stage = stage]

\* the call throws: the catch of the handler that made it shows the error; the
\* confirm button's handler then removes the emergency form
Rejected(w, c) ==
  IF c.action = "emergency_disable" THEN [Remove(w, c) EXCEPT !.sp.modal = "none"]
  ELSE Remove(w, c)

\* result.<field> of the object update_user_score_secure returns
ResultField(result, field) ==
  IF field \in DOMAIN result THEN Some(result[field]) ELSE Null

\* SecureNoCornPopup.updateDisplay() -> updateBlockStatus(): a session whose time is
\* up is completed with a complete_session call
SecureUpdateDisplay(w) ==
  IF w.sp.activeSession = Null THEN [w EXCEPT !.sp.view = "inactive"]
  ELSE IF Val(w.sp.activeSession).end_time - now > 0 THEN [w EXCEPT !.sp.view = "active"]
  ELSE [w EXCEPT !.ss.calls =
                   @ (+) SetToBag({NewCall("complete_session", ActionData(<<>>, 0, ""))})]

\* the call returns `result`: the rest of the handler that made it
Returned(w, c, result) ==
  LET new_total_score == ResultField(result, "new_total_score")
      w1 == Remove(w, c)
  IN CASE c.action = "add_site" ->
            IF ~w1.sp.loaded THEN w1
            ELSE SecureUpdateDisplay(
                   [w1 EXCEPT !.sp.blockedSites = Append(@, "undefined"),
                              !.sp.totalScore = new_total_score])
       [] c.action = "start_session" ->
            SecureUpdateDisplay(
              [w1 EXCEPT !.sp.activeSession = ResultField(result, "session"),
                         !.sp.totalScore = new_total_score])
       [] c.action = "complete_session" ->
            SecureUpdateDisplay(
              [w1 EXCEPT !.sp.currentStreak = ResultField(result, "new_streak"),
                         !.sp.totalScore = new_total_score,
                         !.sp.activeSession = Null,
                         !.r = RemoveRuleIds(w1.r)])
       [] c.action = "emergency_attempt" -> [w1 EXCEPT !.sp.modal = "form"]
       [] c.action = "emergency_disable" ->
            SecureUpdateDisplay(
              [w1 EXCEPT !.sp.currentStreak = Some(0),
                         !.sp.totalScore = new_total_score,
                         !.sp.activeSession = Null,
                         !.sp.modal = "none",
                         !.r = RemoveRuleIds(w1.r)])
       [] OTHER -> SecureUpdateDisplay([w1 EXCEPT !.sp.totalScore = new_total_score])

ActiveRows(db) == SelectSeq(db.sessions, LAMBDA row : row.status = "active")

\* validateAndAwardPoints, from one await to the next
PipelineStep(w, c) ==
  CASE c.stage = "validate" ->      \* serverSideValidation: rpc validate_user_action
         IF \/ ~ValidateTimestamp(c.data.timestamp)
            \/ c.action = "add_site" /\ \E site \in Sites :
                 c.data.site = <<site>> /\ SiteExists(w.db, site)
         THEN Rejected(w, c)
         ELSE Replace(w, c, AtStage(c, "timestamp"))
    [] c.stage = "timestamp" ->     \* validateTimestamp, then checkRateLimit
         LET checked == CheckRateLimit(w.ss, c.action)
             w1 == [w EXCEPT !.ss = checked.ss]
         IN IF ~ValidateTimestamp(c.data.timestamp) THEN Rejected(w, c)
            ELSE IF ~checked.ok THEN Rejected(w, c)
            ELSE IF c.action = "add_site"
            THEN IF CleanSite(c.data.site) = "" THEN Rejected(w1, c)
                 ELSE Replace(w1, c, AtStage(c, "site"))
            ELSE IF c.action = "panic_mode"
            THEN Replace(w1, c, AtStage(c, "panic"))
            ELSE IF c.action = "emergency_resist"
            THEN Replace(w1, c, AtStage(c, "emergency"))
            ELSE IF c.action \in {"start_session", "complete_session"}
            THEN IF /\ c.data.duration # 0
                    /\ (c.data.duration < MinDays \/ c.data.duration > MaxDays)
                 THEN Rejected(w1, c)
                 ELSE Replace(w1, c, AtStage(c, "session"))
            ELSE Replace(w1, c, AtStage(c, "points"))
    [] c.stage = "site" ->          \* validateSite: the select of the site's row
         IF SiteExists(w.db, CleanSite(c.data.site)) THEN Rejected(w, c)
         ELSE Replace(w, c, AtStage(c, "dns"))
    [] c.stage = "dns" ->           \* validateSite: verifyDomainExists
         IF ~online THEN Rejected(w, c) ELSE Replace(w, c, AtStage(c, "points"))
    [] c.stage = "panic" ->         \* validatePanicMode: the newest panic log
         IF /\ w.db.panic_logs # <<>>
            /\ now - w.db.panic_logs[Len(w.db.panic_logs)] < PanicCooldown
         THEN Rejected(w, c)
         ELSE Replace(w, c, AtStage(c, "paniclog"))
    [] c.stage = "paniclog" ->      \* validatePanicMode: the insert of the log
         Replace([w EXCEPT !.db.panic_logs = Append(@, now)], c, AtStage(c, "points"))
    [] c.stage = "emergency" ->     \* validateEmergencyAttempt
         LET rows == ActiveRows(w.db)
         IN IF Len(rows) # 1 THEN Rejected(w, c)
            ELSE IF rows[1].emergency_attempts >= EmergencyThreshold THEN Rejected(w, c)
            ELSE Replace(w, c, AtStage(c, "points"))
    [] c.stage = "session" ->       \* validateSession: data.action is never set
         Replace(w, c, AtStage(c, "points"))
    [] c.stage = "points" ->        \* calculateSecurePoints
         Replace(w, c, [c EXCEPT !.stage = "lasthash",
                                 !.points = CalculateSecurePoints(w.db, c.action, c.data)])
    [] c.stage = "lasthash" ->      \* recordToBlockchain: getLastBlockHash, createBlock
         Replace(w, c, [c EXCEPT !.stage = "insert",
                                 !.block_hash = Some(BlockHash(LastBlockHash(w.db),
                                                   c.action, c.points, now))])
    [] c.stage = "insert" ->        \* recordToBlockchain: the insert of the block
         LET block_hash == Salted(w.db, Val(c.block_hash))
         IN Replace([w EXCEPT !.db.blocks =
                                Append(@, [block_hash |-> block_hash,
                                           previous_hash |-> block_hash[1],
                                           action_type |-> c.action,
                                           points_awarded |-> c.points,
                                           block_data |->
                                             [timestamp |-> block_hash[4],
                                              nonce |-> block_hash[5]]])],
                    c, [c EXCEPT !.stage = "score", !.block_hash = Some(block_hash)])
    [] OTHER ->                     \* updateUserScore: rpc update_user_score_secure
         LET db == UpdateUserScoreSecure(w.db, c.points, Val(c.block_hash))
             result == [success |-> TRUE, previous_score |-> w.db.total_score,
                        new_score |-> db.total_score, points_added |-> c.points]
         IN Returned([w EXCEPT !.db = db], c, result)

\* a call in flight runs to its next await
CallStep(c) ==
  /\ c \in BagToSet(security.calls)
  /\ Commit(PipelineStep(World, c))
  /\ UNCHANGED <<now, online>>

\* ----------------------------------------------------------- SecureNoCornPopup
ClosedSecurePopup ==
  [open |-> FALSE, loaded |-> FALSE, totalScore |-> Null, currentStreak |-> Null,
   blockedSites |-> <<>>, activeSession |-> Null, view |-> "inactive", modal |-> "none"]

\* createUserProfile(): the upsert of the profile row writes total_score 0 and
\* current_streak 0
CreateUserProfile(db) == [db EXCEPT !.total_score = 0, !.current_streak = 0]

\* loadSecureData(): the profile joined with its sites and (inner) its sessions;
\* without a session row the query has no row and nothing is loaded
LoadSecureData(w) ==
  IF w.db.sessions = <<>> THEN w
  ELSE LET activeSessions == ActiveRows(w.db)
       IN [w EXCEPT !.sp.loaded = TRUE,
                    !.sp.currentStreak = Some(w.db.current_streak),
                    !.sp.totalScore = Some(w.db.total_score),
                    !.sp.blockedSites = [i \in 1..Len(w.db.sites) |-> w.db.sites[i].site],
                    !.sp.activeSession = IF activeSessions = <<>> THEN Null
                                         ELSE Some(activeSessions[1])]

\* init(): initializeUser(), loadSecureData(), updateDisplay()
SecureOpen ==
  /\ ~secure.open /\ ~popup.open /\ online
  /\ LET w0 == [World EXCEPT !.db = CreateUserProfile(@),
                             !.sp = [ClosedSecurePopup EXCEPT !.open = TRUE],
                             !.ss = InitSecurity]
         w1 == LoadSecureData(w0)
     IN Commit(IF w1.sp.loaded THEN SecureUpdateDisplay(w1) ELSE w1)
  /\ UNCHANGED <<now, online>>

\* the popup is closed: its page, its security system and the calls in flight go
SecureClose ==
  /\ secure.open
  /\ secure' = ClosedSecurePopup
  /\ security' = InitSecurity
  /\ UNCHANGED <<now, storage, popup, rules, alarm, inbox, remote, online>>

\* a handler calls validateAndAwardPoints(action, data)
Submit(w, action, data) ==
  [w EXCEPT !.ss.calls = @ (+) SetToBag({NewCall(action, data)})]

\* addSiteSecure()
SecureAddSite(inputs) ==
  /\ secure.open /\ secure.modal = "none"
  /\ \E raw \in inputs :
       Commit(IF raw = <<>> THEN World ELSE Submit(World, "add_site", ActionData(raw, 0, "")))
  /\ UNCHANGED <<now, online>>

\* triggerSecurePanicMode()
SecurePanicMode ==
  /\ secure.open /\ secure.modal = "none"
  /\ Commit(Submit(World, "panic_mode", ActionData(<<>>, 0, "")))
  /\ UNCHANGED <<now, online>>

\* startSecureBlockSession(), the confirmation dialog answered yes
SecureStartBlockSession(presets, customs) ==
  /\ secure.open /\ secure.modal = "none" /\ secure.loaded /\ secure.view = "inactive"
  /\ \E custom \in BOOLEAN : \E days \in (IF custom THEN customs ELSE presets) :
       Commit(IF secure.blockedSites = <<>> \/ (custom /\ ~ValidCustomDays(days))
              THEN World
              ELSE Submit(World, "start_session", ActionData(<<>>, days, "")))
  /\ UNCHANGED <<now, online>>

\* attemptSecureEmergencyDisable(), from the button shown with an active session
SecureAttemptEmergencyDisable ==
  /\ secure.open /\ secure.modal = "none" /\ secure.view = "active"
  /\ secure.activeSession # Null
  /\ Commit(Submit(World, "emergency_attempt", ActionData(<<>>, 0, "")))
  /\ UNCHANGED <<now, online>>

\* the secure form's confirm button: an empty reason is refused, otherwise
\* performSecureEmergencyDisable(reason)
SecureConfirmEmergencyDisable ==
  /\ secure.open /\ secure.modal = "form"
  /\ \E reason \in Reasons :
       Commit(IF reason = "" THEN World
              ELSE Submit([World EXCEPT !.sp.modal = "confirming"], "emergency_disable",
                          ActionData(<<>>, 0, reason)))
  /\ UNCHANGED <<now, online>>

\* the secure form's "Stay Strong" button: resistEmergencySecure()
SecureResistEmergency ==
  /\ secure.open /\ secure.modal = "form"
  /\ Commit(Submit([World EXCEPT !.sp.modal = "none"], "emergency_resist",
                   ActionData(<<>>, 0, "")))
  /\ UNCHANGED <<now, online>>

\* ------------------------------------------------------------- environment
AdvanceClock ==
  /\ now < MaxClockHalfDays * HalfDay
  /\ now' = now + HalfDay
  /\ UNCHANGED <<storage, popup, rules, alarm, inbox, remote, online, secure, security>>

\* the clock of the ticking session: it runs to the session's end and no further
AdvanceClockTick ==
  /\ now < TickDuration * Day
  /\ now' = now + HalfDay
  /\ UNCHANGED <<storage, popup, rules, alarm, inbox, remote, online, secure, security>>

ToggleNetwork ==
  /\ online' = ~online
  /\ UNCHANGED <<now, storage, popup, rules, alarm, inbox, remote, secure, security>>

\* ------------------------------------------------------------------- Init
\* chrome.storage.local after initializeStorage()
InitStorage ==
  [currentStreak |-> 0, totalScore |-> 0, blockedSites |-> <<>>, activeSession |-> Null,
   stats |-> DefaultStats, emergencyLog |-> Null]

\* the user's rows after createUserProfile()
InitRemote ==
  [total_score |-> 0, current_streak |-> 0, sites |-> <<>>, sessions |-> <<>>,
   blocks |-> <<>>, transactions |-> <<>>, action_counts |-> <<>>,
   panic_logs |-> <<>>]

Init ==
  /\ now = 0
  /\ storage = InitStorage
  /\ popup = ClosedPopup
  /\ rules = {}
  /\ alarm = FALSE
  /\ inbox = <<>>
  /\ remote = InitRemote
  /\ secure = ClosedSecurePopup
  /\ security = InitSecurity
  /\ online \in BOOLEAN
  /\ pending = <<>>
  /\ inflight = <<>>
  /\ hist = <<>>

Next ==
  \/ OpenPopup
  \/ ClosePopup
  \/ Reconnect
  \/ AddSite(RawInputs)
  \/ RemoveSite
  \/ StartBlockSession(PresetDays, CustomDays)
  \/ AttemptEmergencyDisable
  \/ ConfirmEmergencyDisable
  \/ CancelEmergencyForm
  \/ StayStrong
  \/ InterventionTimeout
  \/ TriggerPanicMode
  \/ BgTick
  \/ BgStartup
  \/ BgHandleMessage
  \/ AdvanceClock
  \/ ToggleNetwork

Spec == Init /\ [][Next /\ UNCHANGED <<hist, pending, inflight>>]_vars

\* The popup working from local storage only (no backend), with the background
InitLocal ==
  /\ now = 0
  /\ storage = InitStorage
  /\ popup = ClosedPopup
  /\ rules = {}
  /\ alarm = FALSE
  /\ inbox = <<>>
  /\ remote = InitRemote
  /\ secure = ClosedSecurePopup
  /\ security = InitSecurity
  /\ online = FALSE
  /\ pending = <<>>
  /\ inflight = <<>>
  /\ hist = <<>>

NextLocal ==
  \/ OpenPopup
  \/ ClosePopup
  \/ AddSite(OneSiteInputs)
  \/ StartBlockSession(PresetDays, CustomDays)
  \/ AttemptEmergencyDisable
  \/ ConfirmEmergencyDisable
  \/ CancelEmergencyForm
  \/ StayStrong
  \/ InterventionTimeout
  \/ BgTick
  \/ BgHandleMessage
  \/ AdvanceClock

SpecLocal == InitLocal /\ [][NextLocal /\ UNCHANGED <<hist, pending, inflight>>]_vars

\* One session of TickDuration days and the alarm: the popup starts the session and
\* is closed; the background's alarm then ticks, one handler at a time, as the
\* clock advances. hist records what the ticks granted as daily bonus.
InitTick ==
  /\ now = 0
  /\ storage = InitStorage
  /\ popup = ClosedPopup
  /\ rules = {}
  /\ alarm = FALSE
  /\ inbox = <<>>
  /\ remote = InitRemote
  /\ secure = ClosedSecurePopup
  /\ security = InitSecurity
  /\ online = FALSE
  /\ pending = <<>>
  /\ inflight = <<>>
  /\ hist = [ticks |-> 0, granted |-> 0, lastTick |-> 0, sessions |-> 0]

\* a tick on an active session that leaves it active grants storage's score change
TickObserved ==
  /\ hist.ticks < MaxTicks
  /\ BgTick
  /\ hist' = IF storage.activeSession # Null /\ storage'.activeSession # Null
             THEN [hist EXCEPT !.ticks = @ + 1,
                               !.granted = @ + storage'.totalScore - storage.totalScore,
                               !.lastTick = now]
             ELSE hist

StartObserved ==
  /\ hist.sessions = 0
  /\ StartBlockSession({TickDuration}, {TickDuration})
  /\ hist' = IF popup'.activeSession # Null THEN [hist EXCEPT !.sessions = 1] ELSE hist

NextTick ==
  \/ OpenPopup /\ hist.sessions = 0 /\ UNCHANGED hist
  \/ AddSite(OneSiteInputs) /\ UNCHANGED hist
  \/ StartObserved
  \/ ClosePopup /\ UNCHANGED hist
  \/ BgHandleMessage /\ UNCHANGED hist
  \/ TickObserved
  \/ AdvanceClockTick /\ UNCHANGED hist

SpecTick == InitTick /\ [][NextTick /\ UNCHANGED <<pending, inflight>>]_vars

\* The popup of a signed-in user with a network that comes and goes: a popup opened
\* online works on the backend, one opened offline on local storage. hist records
\* the score the last emergency disable found.
InitSync ==
  /\ now = 0
  /\ storage = InitStorage
  /\ popup = ClosedPopup
  /\ rules = {}
  /\ alarm = FALSE
  /\ inbox = <<>>
  /\ remote = InitRemote
  /\ secure = ClosedSecurePopup
  /\ security = InitSecurity
  /\ online \in BOOLEAN
  /\ pending = <<>>
  /\ inflight = <<>>
  /\ hist = [penalised |-> -1]

NextSync ==
  \/ OpenPopup /\ UNCHANGED hist
  \/ ClosePopup /\ UNCHANGED hist
  \/ AddSite(OneSiteInputs) /\ UNCHANGED hist
  \/ StartBlockSession(OneDay, OneDayOrInvalid) /\ UNCHANGED hist
  \/ AttemptEmergencyDisable /\ UNCHANGED hist
  \/ ConfirmEmergencyDisable /\ hist' = [hist EXCEPT !.penalised = popup.totalScore]
  \/ InterventionTimeout /\ UNCHANGED hist
  \/ BgHandleMessage /\ UNCHANGED hist
  \/ BgTick /\ UNCHANGED hist
  \/ AdvanceClock /\ UNCHANGED hist
  \/ ToggleNetwork /\ UNCHANGED hist

SpecSync == InitSync /\ [][NextSync /\ UNCHANGED <<pending, inflight>>]_vars

\* Awards made offline and the next load from the backend. hist records the awards
\* the popup made on local storage only (base: the remote total when the first of
\* them was made; deltas: their sum) and whether a load from the backend followed.
NoLocalAwards == [base |-> 0, deltas |-> 0, awards |-> 0, synced |-> FALSE]
InitOffline ==
  /\ now = 0
  /\ storage = InitStorage
  /\ popup = ClosedPopup
  /\ rules = {}
  /\ alarm = FALSE
  /\ inbox = <<>>
  /\ remote = InitRemote
  /\ secure = ClosedSecurePopup
  /\ security = InitSecurity
  /\ online \in BOOLEAN
  /\ pending = <<>>
  /\ inflight = <<>>
  /\ hist = NoLocalAwards

OfflineObserved ==
  LET localAward == /\ popup.open /\ ~popup.backend /\ popup'.open
                    /\ popup'.totalScore > popup.totalScore
      delta == popup'.totalScore - popup.totalScore
      loaded == ~popup.open /\ popup'.open /\ popup'.backend
  IN hist' =
       IF localAward
       THEN IF hist.synced \/ hist.awards = 0
            THEN [base |-> remote.total_score, deltas |-> delta, awards |-> 1,
                  synced |-> FALSE]
            ELSE [hist EXCEPT !.deltas = @ + delta,
                              !.awards = Min(@ + 1, LocalAwards + 1)]
       ELSE IF loaded /\ hist.awards > 0 /\ ~hist.synced
       THEN [hist EXCEPT !.synced = TRUE]
       ELSE IF remote' # remote THEN NoLocalAwards
       ELSE hist

NextOffline ==
  \/ OpenPopup /\ OfflineObserved
  \/ ClosePopup /\ OfflineObserved
  \/ AddSite(RawInputs) /\ OfflineObserved
  \/ StartBlockSession(OneDay, OneDayOrInvalid) /\ OfflineObserved
  \/ BgHandleMessage /\ OfflineObserved
  \/ ToggleNetwork /\ OfflineObserved

SpecOffline == InitOffline /\ [][NextOffline /\ UNCHANGED <<pending, inflight>>]_vars

\* The rate limiter under concurrent calls: the secure popup is open, the user
\* adds sites and presses the panic button, possibly many times before the first
\* call returns, and the clock advances in steps of half an hour. hist records the
\* times checkRateLimit let a call of each action pass since the popup was opened,
\* and the outcome of its last check.
RateClockStep == 30 * Minute
RateInputs == {<<"a.com">>}
InitRateHist ==
  [successes |-> [a \in DOMAIN RateLimits |-> <<>>], checked |-> FALSE, ok |-> FALSE,
   action |-> "", prior |-> 0]
InitRate ==
  /\ now = 0
  /\ storage = InitStorage
  /\ popup = ClosedPopup
  /\ rules = {}
  /\ alarm = FALSE
  /\ inbox = <<>>
  /\ remote = InitRemote
  /\ secure = ClosedSecurePopup
  /\ security = InitSecurity
  /\ online = TRUE
  /\ pending = <<>>
  /\ inflight = <<>>
  /\ hist = InitRateHist

\* the successes of `times` in the trailing window (t - window, t]
InWindow(times, window, t) == {i \in 1..Len(times) : times[i] > t - window /\ times[i] <= t}

\* checkRateLimit runs in the step of a call from the await of validateTimestamp
RateObserved(c) ==
  IF /\ c.stage = "timestamp" /\ c.action \in DOMAIN RateLimits
     /\ ValidateTimestamp(c.data.timestamp)
  THEN LET ok == security'.rateLimits[c.action] # security.rateLimits[c.action]
       IN [successes |-> IF ok THEN [hist.successes EXCEPT ![c.action] = Append(@, now)]
                         ELSE hist.successes,
           checked |-> TRUE, ok |-> ok, action |-> c.action,
           prior |-> Cardinality(InWindow(hist.successes[c.action],
                                          RateLimits[c.action].window, now))]
  ELSE hist

\* Past the rate limiter the calls are served one after the other here (the one
\* furthest on goes first); up to the limiter they interleave freely.
StageRank(stage) ==
  CASE stage \in {"validate", "timestamp"} -> 0
    [] stage \in {"site", "panic", "emergency", "session"} -> 1
    [] stage \in {"dns", "paniclog"} -> 2
    [] stage = "points" -> 3
    [] stage = "lasthash" -> 4
    [] stage = "insert" -> 5
    [] OTHER -> 6
Serial(c) ==
  \/ StageRank(c.stage) = 0
  \/ \A d \in BagToSet(security.calls) : StageRank(d.stage) <= StageRank(c.stage)

AdvanceClockRate ==
  /\ now < MaxRateSteps * RateClockStep
  /\ security.calls = EmptyBag
  /\ now' = now + RateClockStep
  /\ UNCHANGED <<storage, popup, rules, alarm, inbox, remote, online, secure, security>>

NextRate ==
  \/ SecureOpen /\ hist' = InitRateHist
  \/ SecureAddSite(RateInputs) /\ UNCHANGED hist
  \/ \E c \in BagToSet(security.calls) :
       Serial(c) /\ CallStep(c) /\ hist' = RateObserved(c)
  \/ AdvanceClockRate /\ UNCHANGED hist

SpecRate == InitRate /\ [][NextRate /\ UNCHANGED <<pending, inflight>>]_vars

\* The secure popup on a session the user's rows hold: the popup starts the session
\* through the backend, then the secure popup is opened. The user lets a call
\* return before the next click. hist counts the emergency attempts made in the
\* secure popup and the add_site awards, with the points of the last one.
Idle == security.calls = EmptyBag
InitSecure ==
  /\ now = 0
  /\ storage = InitStorage
  /\ popup = ClosedPopup
  /\ rules = {}
  /\ alarm = FALSE
  /\ inbox = <<>>
  /\ remote = InitRemote
  /\ secure = ClosedSecurePopup
  /\ security = InitSecurity
  /\ online = TRUE
  /\ pending = <<>>
  /\ inflight = <<>>
  /\ hist = [secureAttempts |-> 0, addSiteAwards |-> 0, lastPoints |-> 0]

\* an award is made by the step of a call from the await of updateUserScore
AwardObserved(c) ==
  IF c.action = "add_site" /\ StageRank(c.stage) = 6
  THEN [hist EXCEPT !.addSiteAwards = @ + 1, !.lastPoints = c.points]
  ELSE hist

NextSecure ==
  \/ OpenPopup /\ ~secure.open /\ UNCHANGED hist
  \/ ClosePopup /\ UNCHANGED hist
  \/ AddSite(OneSiteInputs) /\ UNCHANGED hist
  \/ StartBlockSession(OneDay, OneDayOrInvalid) /\ UNCHANGED hist
  \/ AttemptEmergencyDisable /\ UNCHANGED hist
  \/ InterventionTimeout /\ UNCHANGED hist
  \/ ConfirmEmergencyDisable /\ UNCHANGED hist
  \/ BgHandleMessage /\ UNCHANGED hist
  \/ SecureOpen /\ UNCHANGED hist
  \/ SecureClose /\ UNCHANGED hist
  \/ /\ Idle /\ hist.addSiteAwards < MaxSecureAwards
     /\ SecureAddSite(RateInputs) /\ UNCHANGED hist
  \/ /\ Idle /\ hist.secureAttempts < MaxAttemptClicks
     /\ SecureAttemptEmergencyDisable
     /\ hist' = [hist EXCEPT !.secureAttempts = @ + 1]
  \/ SecureConfirmEmergencyDisable /\ UNCHANGED hist
  \/ \E c \in BagToSet(security.calls) : CallStep(c) /\ hist' = AwardObserved(c)

SpecSecure == InitSecure /\ [][NextSecure /\ UNCHANGED <<pending, inflight>>]_vars

\* The integrity log: the secure popup appends blocks (add_site and panic_mode
\* awards, the calls served as in SpecRate), and one stored block's points_awarded may be
\* changed afterwards. hist.tampered is the index of the changed block, 0 if none.
MaxChain == 3              \* blocks appended to the chain
TamperPoints == {0, AddSitePoints, PanicPoints}

\* verifyChain(entries): recomputes each entry's hash from what the entry stores and
\* reports the first index whose recomputed hash is not the stored one, 0 ("valid")
\* if there is none
Recomputed(row) ==
  Append(BlockHash(row.previous_hash, row.action_type, row.points_awarded,
                   row.block_data.timestamp),
         row.block_data.nonce)
VerifyChain(entries) ==
  LET bad == {i \in 1..Len(entries) : Recomputed(entries[i]) # entries[i].block_hash}
  IN IF bad = {} THEN 0 ELSE CHOOSE i \in bad : \A j \in bad : i <= j

InitChain ==
  /\ now = 0
  /\ storage = InitStorage
  /\ popup = ClosedPopup
  /\ rules = {}
  /\ alarm = FALSE
  /\ inbox = <<>>
  /\ remote = InitRemote
  /\ secure = ClosedSecurePopup
  /\ security = InitSecurity
  /\ online = TRUE
  /\ pending = <<>>
  /\ inflight = <<>>
  /\ hist = [tampered |-> 0]

\* room for one more block
ChainRoom == Len(remote.blocks) + BagCardinality(security.calls) < MaxChain

\* a stored block's points_awarded is changed after the fact
Tamper ==
  /\ hist.tampered = 0
  /\ \E i \in 1..Len(remote.blocks) :
       \E points \in TamperPoints \ {remote.blocks[i].points_awarded} :
         /\ remote' = [remote EXCEPT !.blocks[i].points_awarded = points]
         /\ hist' = [tampered |-> i]
  /\ UNCHANGED <<now, storage, popup, rules, alarm, inbox, online, secure, security>>

NextChain ==
  \/ SecureOpen /\ UNCHANGED hist
  \/ ChainRoom /\ SecureAddSite(RateInputs) /\ UNCHANGED hist
  \/ ChainRoom /\ SecurePanicMode /\ UNCHANGED hist
  \/ \E c \in BagToSet(security.calls) : Serial(c) /\ CallStep(c) /\ UNCHANGED hist
  \/ AdvanceClockRate /\ UNCHANGED hist
  \/ Tamper

SpecChain == InitChain /\ [][NextChain /\ UNCHANGED <<pending, inflight>>]_vars

\* The life of a session to its natural end: the popup starts it (offline on local
\* storage, online through the backend), the clock runs past its end, and the
\* background's alarm, a popup opened again or the secure popup completes it.
InitLife ==
  /\ now = 0
  /\ storage = InitStorage
  /\ popup = ClosedPopup
  /\ rules = {}
  /\ alarm = FALSE
  /\ inbox = <<>>
  /\ remote = InitRemote
  /\ secure = ClosedSecurePopup
  /\ security = InitSecurity
  /\ online \in BOOLEAN
  /\ pending = <<>>
  /\ inflight = <<>>
  /\ hist = <<>>

MaxLifeHalfDays == 4       \* the clock of SpecLife stops after this many half days
AdvanceClockLife ==
  /\ now < MaxLifeHalfDays * HalfDay
  /\ Idle
  /\ now' = now + HalfDay
  /\ UNCHANGED <<storage, popup, rules, alarm, inbox, remote, online, secure, security>>

NextLife ==
  \/ OpenPopup /\ ~secure.open /\ UNCHANGED hist
  \/ ClosePopup /\ UNCHANGED hist
  \/ AddSite(OneSiteInputs) /\ UNCHANGED hist
  \/ StartBlockSession(OneDay, OneDayOrInvalid) /\ UNCHANGED hist
  \/ BgHandleMessage /\ UNCHANGED hist
  \/ BgTick /\ UNCHANGED hist
  \/ AdvanceClockLife /\ UNCHANGED hist
  \/ SecureOpen /\ UNCHANGED hist
  \/ Idle /\ SecureClose /\ UNCHANGED hist
  \/ \E c \in BagToSet(security.calls) : CallStep(c) /\ UNCHANGED hist

SpecLife == InitLife /\ [][NextLife /\ UNCHANGED <<pending, inflight>>]_vars

\* Start requests with any input: the duration select and the custom field may hold
\* a valid number of days or one outside [1, 365], the site list may be empty.
\* The popup works on local storage.
AnyDays == {0, MinDays, MaxDays + 1}
MaxCompleted == 2          \* sessions completed before the last start request
InitInput ==
  /\ now = 0
  /\ storage = InitStorage
  /\ popup = ClosedPopup
  /\ rules = {}
  /\ alarm = FALSE
  /\ inbox = <<>>
  /\ remote = InitRemote
  /\ secure = ClosedSecurePopup
  /\ security = InitSecurity
  /\ online = FALSE
  /\ pending = <<>>
  /\ inflight = <<>>
  /\ hist = <<>>

NextInput ==
  \/ OpenPopup /\ UNCHANGED hist
  \/ ClosePopup /\ UNCHANGED hist
  \/ AddSite(OneSiteInputs) /\ UNCHANGED hist
  \/ /\ storage.stats.sessionsCompleted < MaxCompleted
     /\ StartBlockSession(AnyDays, AnyDays) /\ UNCHANGED hist
  \/ AttemptEmergencyDisable /\ UNCHANGED hist
  \/ ConfirmEmergencyDisable /\ UNCHANGED hist
  \/ InterventionTimeout /\ UNCHANGED hist
  \/ BgHandleMessage /\ UNCHANGED hist
  \/ BgTick /\ UNCHANGED hist
  \/ AdvanceClock /\ UNCHANGED hist

SpecInput == InitInput /\ [][NextInput /\ UNCHANGED <<pending, inflight>>]_vars

\* Starts of sessions of one to MaxStartDays days, offline on local storage and
\* online through the backend, while the clock runs and the alarm ticks.
MaxStartDays == 2          \* longest session started in SpecStart
StartDays == MinDays..MaxStartDays
InitStart ==
  /\ now = 0
  /\ storage = InitStorage
  /\ popup = ClosedPopup
  /\ rules = {}
  /\ alarm = FALSE
  /\ inbox = <<>>
  /\ remote = InitRemote
  /\ secure = ClosedSecurePopup
  /\ security = InitSecurity
  /\ online \in BOOLEAN
  /\ pending = <<>>
  /\ inflight = <<>>
  /\ hist = <<>>

NextStart ==
  \/ OpenPopup /\ UNCHANGED hist
  \/ ClosePopup /\ UNCHANGED hist
  \/ AddSite(OneSiteInputs) /\ UNCHANGED hist
  \/ StartBlockSession(StartDays, StartDays \cup {0}) /\ UNCHANGED hist
  \/ BgHandleMessage /\ UNCHANGED hist
  \/ BgTick /\ UNCHANGED hist
  \/ AdvanceClock /\ UNCHANGED hist
  \/ ToggleNetwork /\ UNCHANGED hist

SpecStart == InitStart /\ [][NextStart /\ UNCHANGED <<pending, inflight>>]_vars

\* The live site list while a session runs: the popup (offline on local storage, or
\* online through the backend) adds and removes sites before and after the start.
InitSites ==
  /\ now = 0
  /\ storage = InitStorage
  /\ popup = ClosedPopup
  /\ rules = {}
  /\ alarm = FALSE
  /\ inbox = <<>>
  /\ remote = InitRemote
  /\ secure = ClosedSecurePopup
  /\ security = InitSecurity
  /\ online \in BOOLEAN
  /\ pending = <<>>
  /\ inflight = <<>>
  /\ hist = <<>>

NextSites ==
  \/ OpenPopup /\ UNCHANGED hist
  \/ ClosePopup /\ UNCHANGED hist
  \/ AddSite(RawInputs) /\ UNCHANGED hist
  \/ RemoveSite /\ UNCHANGED hist
  \/ StartBlockSession(OneDay, OneDayOrInvalid) /\ UNCHANGED hist
  \/ BgHandleMessage /\ UNCHANGED hist
  \/ BgTick /\ UNCHANGED hist
  \/ AdvanceClock /\ UNCHANGED hist

SpecSites == InitSites /\ [][NextSites /\ UNCHANGED <<pending, inflight>>]_vars

\* Overlapping ticks on one session of TickDuration days: the popup starts the
\* session and is closed, the alarm fires again before the last updateSession() has
\* written. hist.base holds the score and the session's lastDailyBonus as they were
\* when the first of the invocations in flight read storage, hist.grants the
\* number of invocations since then that found a bonus to grant.
InitOverlap ==
  /\ now = 0
  /\ storage = InitStorage
  /\ popup = ClosedPopup
  /\ rules = {}
  /\ alarm = FALSE
  /\ inbox = <<>>
  /\ remote = InitRemote
  /\ secure = ClosedSecurePopup
  /\ security = InitSecurity
  /\ online = FALSE
  /\ pending = <<>>
  /\ inflight = <<>>
  /\ hist = [sessions |-> 0, base |-> Null, grants |-> 0]

ReadObserved ==
  /\ TickRead
  /\ hist' = IF pending = <<>>
             THEN [hist EXCEPT !.base = Some([score |-> storage.totalScore,
                                              last |-> IF storage.activeSession = Null THEN 0
                                                       ELSE Val(storage.activeSession).lastDailyBonus]),
                               !.grants = 0]
             ELSE hist

\* the invocation that read `data` finds a daily bonus to grant
Grants(data) ==
  /\ data.activeSession # Null
  /\ now < Val(data.activeSession).endTime
  /\ DailyBonus(Val(data.activeSession), now) > Val(data.activeSession).lastDailyBonus

WriteObserved ==
  \E i \in 1..Len(pending) :
    /\ TickWrite(i)
    /\ hist' = IF Grants(pending[i]) THEN [hist EXCEPT !.grants = Min(@ + 1, MaxOverlap + 1)]
               ELSE hist

StartOverlap ==
  /\ hist.sessions = 0
  /\ StartBlockSession({TickDuration}, {TickDuration})
  /\ hist' = IF popup'.activeSession # Null THEN [hist EXCEPT !.sessions = 1] ELSE hist
  /\ UNCHANGED pending

NextOverlap ==
  \/ OpenPopup /\ hist.sessions = 0 /\ UNCHANGED <<hist, pending>>
  \/ AddSite(OneSiteInputs) /\ UNCHANGED <<hist, pending>>
  \/ StartOverlap
  \/ ClosePopup /\ UNCHANGED <<hist, pending>>
  \/ BgHandleMessage /\ UNCHANGED <<hist, pending>>
  \/ ReadObserved
  \/ WriteObserved
  \/ AdvanceClockTick /\ UNCHANGED <<hist, pending>>

SpecOverlap == InitOverlap /\ [][NextOverlap /\ UNCHANGED inflight]_vars

\* The secure popup on a machine whose clock is off the server's: each request
\* carries the machine's time as its timestamp, the user lets a call return
\* before the next click, and the server's clock advances in steps of half an
\* hour. hist records the last run of the two timestamp tests: how far the
\* request's timestamp was ahead of the server, whether the call was thrown out,
\* whether another test of the same step refuses it, and whether the step left the
\* user's rows, the rate limiter and the popup as they were.
MaxSkew == 6               \* minutes the machine's clock is off by, at most
Skews == {-MaxSkew, -TimestampDrift, 0, TimestampDrift, MaxSkew}
InitDriftHist ==
  [checked |-> FALSE, skew |-> 0, rejected |-> FALSE, other |-> FALSE, unchanged |-> TRUE]
InitDrift ==
  /\ now = 0
  /\ storage = InitStorage
  /\ popup = ClosedPopup
  /\ rules = {}
  /\ alarm = FALSE
  /\ inbox = <<>>
  /\ remote = InitRemote
  /\ secure = ClosedSecurePopup
  /\ security = InitSecurity
  /\ online = TRUE
  /\ pending = <<>>
  /\ inflight = <<>>
  /\ hist = InitDriftHist

\* timestamp: new Date().toISOString() on that machine
Skewed(data, skew) == [data EXCEPT !.timestamp = now + skew]

\* addSiteSecure() on that machine
SecureAddSiteSkewed(inputs) ==
  /\ secure.open /\ secure.modal = "none" /\ Idle
  /\ \E raw \in inputs : \E skew \in Skews :
       Commit(Submit(World, "add_site", Skewed(ActionData(raw, 0, ""), skew)))
  /\ UNCHANGED <<now, online>>

\* triggerSecurePanicMode() on that machine
SecurePanicModeSkewed ==
  /\ secure.open /\ secure.modal = "none" /\ Idle
  /\ \E skew \in Skews :
       Commit(Submit(World, "panic_mode", Skewed(ActionData(<<>>, 0, ""), skew)))
  /\ UNCHANGED <<now, online>>

\* the tests that share a step with a timestamp test and refuse the call
OtherRefusal(c) ==
  IF c.stage = "validate"
  THEN c.action = "add_site" /\ SiteExists(remote, c.data.site[1])
  ELSE \/ ~CheckRateLimit(security, c.action).ok
       \/ c.action = "add_site" /\ CleanSite(c.data.site) = ""

DriftObserved(c) ==
  IF c.stage \in {"validate", "timestamp"}
  THEN [checked |-> TRUE,
        skew |-> c.data.timestamp - now,
        rejected |-> BagCardinality(security'.calls) < BagCardinality(security.calls),
        other |-> OtherRefusal(c),
        unchanged |-> /\ remote' = remote
                      /\ security'.rateLimits = security.rateLimits
                      /\ secure' = secure]
  ELSE InitDriftHist

NextDrift ==
  \/ SecureOpen /\ hist' = InitDriftHist
  \/ ChainRoom /\ SecureAddSiteSkewed(RateInputs) /\ UNCHANGED hist
  \/ ChainRoom /\ SecurePanicModeSkewed /\ UNCHANGED hist
  \/ \E c \in BagToSet(security.calls) : CallStep(c) /\ hist' = DriftObserved(c)
  \/ AdvanceClockRate /\ UNCHANGED hist

SpecDrift == InitDrift /\ [][NextDrift /\ UNCHANGED <<pending, inflight>>]_vars

\* The popup of a signed-in user whose network drops while the popup is open. hist
\* records the last click on the add button: the cleaned site, whether the popup
\* held a backend connection with the network down, whether the site was already
\* listed, and the stored score, the stored list, the remote total and the number
\* of the user's site rows the click found.
NoRequest ==
  [site |-> Null, remoteDown |-> FALSE, listed |-> FALSE, score |-> 0, sites |-> <<>>,
   total |-> 0, rows |-> 0]
InitUnavailable ==
  /\ now = 0
  /\ storage = InitStorage
  /\ popup = ClosedPopup
  /\ rules = {}
  /\ alarm = FALSE
  /\ inbox = <<>>
  /\ remote = InitRemote
  /\ secure = ClosedSecurePopup
  /\ security = InitSecurity
  /\ online \in BOOLEAN
  /\ pending = <<>>
  /\ inflight = <<>>
  /\ hist = NoRequest

AddSiteObserved(raw) ==
  IF raw = <<>> THEN NoRequest
  ELSE [site |-> Some(CleanSite(raw)),
        remoteDown |-> popup.backend /\ ~online,
        listed |-> Includes(popup.blockedSites, CleanSite(raw)),
        score |-> storage.totalScore,
        sites |-> storage.blockedSites,
        total |-> remote.total_score,
        rows |-> Len(remote.sites)]

NextUnavailable ==
  \/ OpenPopup /\ hist' = NoRequest
  \/ ClosePopup /\ hist' = NoRequest
  \/ \E raw \in RawInputs : AddSite({raw}) /\ hist' = AddSiteObserved(raw)
  \/ RemoveSite /\ hist' = NoRequest
  \/ ToggleNetwork /\ hist' = NoRequest

SpecUnavailable == InitUnavailable /\ [][NextUnavailable /\ UNCHANGED <<pending, inflight>>]_vars

\* BackendConnection.updateScore(points) from one await to the next, for calls that
\* overlap: addBlockedSite, logPanicMode and createSession each end in one, and a
\* handler of the popup that awaits its call does not keep the next click from
\* starting another. hist records the calls made and the clamped running sum of
\* the deltas of the calls that have written.
MaxInflight == 2           \* calls of updateScore in flight at once
MaxUpdates == 4            \* calls of updateScore made
UpdatePoints == {AddSitePoints, PanicPoints, StartPointsPerDay * MinDays}
InitRace ==
  /\ now = 0
  /\ storage = InitStorage
  /\ popup = ClosedPopup
  /\ rules = {}
  /\ alarm = FALSE
  /\ inbox = <<>>
  /\ remote = InitRemote
  /\ secure = ClosedSecurePopup
  /\ security = InitSecurity
  /\ online = TRUE
  /\ pending = <<>>
  /\ inflight = <<>>
  /\ hist = [calls |-> 0, sum |-> 0]

\* updateScore(points) up to the answer of getUserData(): newScore is computed
UpdateScoreRead(points) ==
  /\ online /\ Len(inflight) < MaxInflight
  /\ inflight' = Append(inflight, [points |-> points,
                                   newScore |-> Max(0, remote.total_score + points)])
  /\ UNCHANGED <<now, storage, popup, rules, alarm, inbox, remote, online, secure,
                 security, pending>>

\* updateScore(points) from there: the update of the profile row with newScore
UpdateScoreWrite(i) ==
  /\ online /\ i \in 1..Len(inflight)
  /\ remote' = [remote EXCEPT !.total_score = inflight[i].newScore]
  /\ inflight' = SubSeq(inflight, 1, i - 1) \o SubSeq(inflight, i + 1, Len(inflight))
  /\ UNCHANGED <<now, storage, popup, rules, alarm, inbox, online, secure, security,
                 pending>>

NextRace ==
  \/ \E points \in UpdatePoints :
       /\ hist.calls < MaxUpdates
       /\ UpdateScoreRead(points)
       /\ hist' = [hist EXCEPT !.calls = @ + 1]
  \/ \E i \in 1..Len(inflight) :
       /\ UpdateScoreWrite(i)
       /\ hist' = [hist EXCEPT !.sum = Max(0, @ + inflight[i].points)]

SpecRace == InitRace /\ [][NextRace]_vars

\* The secure popup with add-site requests that overlap: the user adds sites one
\* click after the other without waiting, each at most once, and the calls run
\* from await to await in any order. hist records the order the requests were
\* submitted in and the orders their rate-limit slot, their occurrence-count read,
\* their block and their score update took effect in.
OrderInputs == RawInputs \ {<<>>}
InitOrderHist ==
  [submitted |-> <<>>, limited |-> <<>>, counted |-> <<>>, logged |-> <<>>,
   scored |-> <<>>]
InitOrder ==
  /\ now = 0
  /\ storage = InitStorage
  /\ popup = ClosedPopup
  /\ rules = {}
  /\ alarm = FALSE
  /\ inbox = <<>>
  /\ remote = InitRemote
  /\ secure = ClosedSecurePopup
  /\ security = InitSecurity
  /\ online = TRUE
  /\ pending = <<>>
  /\ inflight = <<>>
  /\ hist = InitOrderHist

OrderObserved(c) ==
  LET site == c.data.site
  IN CASE c.stage = "timestamp" /\ security'.rateLimits # security.rateLimits ->
            [hist EXCEPT !.limited = Append(@, site)]
       [] c.stage = "points" -> [hist EXCEPT !.counted = Append(@, site)]
       [] c.stage = "insert" -> [hist EXCEPT !.logged = Append(@, site)]
       [] c.stage = "score" -> [hist EXCEPT !.scored = Append(@, site)]
       [] OTHER -> hist

NextOrder ==
  \/ SecureOpen /\ hist.submitted = <<>> /\ UNCHANGED hist
  \/ \E raw \in OrderInputs :
       /\ ~Includes(hist.submitted, raw)
       /\ SecureAddSite({raw})
       /\ hist' = [hist EXCEPT !.submitted = Append(@, raw)]
  \/ \E c \in BagToSet(security.calls) : CallStep(c) /\ hist' = OrderObserved(c)

SpecOrder == InitOrder /\ [][NextOrder /\ UNCHANGED <<pending, inflight>>]_vars

\* The local popup on one session, with the emergency button clicked again after
\* the form was shown and cancelled.
MaxFormClicks == 4         \* clicks on the emergency button in SpecAttempts
InitAttempts ==
  /\ now = 0
  /\ storage = InitStorage
  /\ popup = ClosedPopup
  /\ rules = {}
  /\ alarm = FALSE
  /\ inbox = <<>>
  /\ remote = InitRemote
  /\ secure = ClosedSecurePopup
  /\ security = InitSecurity
  /\ online = FALSE
  /\ pending = <<>>
  /\ inflight = <<>>
  /\ hist = <<>>

NextAttempts ==
  \/ OpenPopup
  \/ ClosePopup
  \/ AddSite(OneSiteInputs)
  \/ StartBlockSession(OneDay, OneDay)
  \/ AttemptEmergencyDisableUpTo(MaxFormClicks)
  \/ ConfirmEmergencyDisable
  \/ CancelEmergencyForm
  \/ StayStrong
  \/ InterventionTimeout
  \/ BgHandleMessage
  \/ BgTick
  \/ AdvanceClock

SpecAttempts ==
  InitAttempts /\ [][NextAttempts /\ UNCHANGED <<hist, pending, inflight>>]_vars

\* Sessions started in the secure popup: the popup adds a site and starts a
\* session through the backend (the secure popup loads nothing without a session
\* row), then the secure popup is opened once that session's time is up (until
\* then it shows no start button) and its start button is clicked, each click
\* after the call of the last has returned. hist counts those clicks.
MaxSecureStarts == 4       \* clicks on the secure popup's start button
InitStarts ==
  /\ now = 0
  /\ storage = InitStorage
  /\ popup = ClosedPopup
  /\ rules = {}
  /\ alarm = FALSE
  /\ inbox = <<>>
  /\ remote = InitRemote
  /\ secure = ClosedSecurePopup
  /\ security = InitSecurity
  /\ online = TRUE
  /\ pending = <<>>
  /\ inflight = <<>>
  /\ hist = [starts |-> 0]

NextStarts ==
  \/ OpenPopup /\ ~secure.open /\ remote.sessions = <<>> /\ UNCHANGED hist
  \/ ClosePopup /\ UNCHANGED hist
  \/ AddSite(OneSiteInputs) /\ UNCHANGED hist
  \/ StartBlockSession(OneDay, OneDay) /\ UNCHANGED hist
  \/ BgHandleMessage /\ UNCHANGED hist
  \/ SecureOpen /\ UNCHANGED hist
  \/ /\ Idle /\ hist.starts < MaxSecureStarts
     /\ SecureStartBlockSession(OneDay, OneDayOrInvalid)
     /\ hist' = [hist EXCEPT !.starts = @ + 1]
  \/ \E c \in BagToSet(security.calls) : CallStep(c) /\ UNCHANGED hist
  \/ AdvanceClockLife /\ UNCHANGED hist

SpecStarts == InitStarts /\ [][NextStarts /\ UNCHANGED <<pending, inflight>>]_vars

\* calculateSecurePoints as a function: the action, the data of the call and the
\* user's row of user_action_counts are drawn at the start, and the function is
\* evaluated twice on them. hist holds the inputs and the results.
MaxPolicyDays == 2         \* longest duration and most days completed evaluated
PolicyActions ==
  {"add_site", "start_session", "complete_session", "daily_bonus", "emergency_resist",
   "panic_mode"}
PolicyCounts == {0, 9, 10, 49, 50, 99, 100}
InitPolicy ==
  /\ now = 0
  /\ storage = InitStorage
  /\ popup = ClosedPopup
  /\ rules = {}
  /\ alarm = FALSE
  /\ inbox = <<>>
  /\ secure = ClosedSecurePopup
  /\ security = InitSecurity
  /\ online = TRUE
  /\ pending = <<>>
  /\ inflight = <<>>
  /\ \E action \in PolicyActions, duration \in MinDays..MaxPolicyDays,
        daysCompleted \in 0..MaxPolicyDays :
       hist = [action |-> action,
               data |-> [ActionData(<<>>, duration, "") EXCEPT
                           !.daysCompleted = daysCompleted],
               points |-> <<>>]
  /\ \/ remote = InitRemote
     \/ \E count \in PolicyCounts :
          remote = [InitRemote EXCEPT
                      !.action_counts = <<[action_type |-> hist.action,
                                           action_count |-> count]>>]

\* one evaluation of calculateSecurePoints(action, data)
Evaluate ==
  /\ Len(hist.points) < 2
  /\ hist' = [hist EXCEPT !.points =
                             Append(@, CalculateSecurePoints(remote, hist.action, hist.data))]
  /\ UNCHANGED <<now, storage, popup, rules, alarm, inbox, remote, online, secure,
                 security, pending, inflight>>

NextPolicy == Evaluate

SpecPolicy == InitPolicy /\ [][NextPolicy]_vars

\* The local popup left open on one session of TickDuration days while the
\* background's alarm ticks: the emergency button, the intervention and its
\* "I'll Stay Strong" button.
InitResist ==
  /\ now = 0
  /\ storage = InitStorage
  /\ popup = ClosedPopup
  /\ rules = {}
  /\ alarm = FALSE
  /\ inbox = <<>>
  /\ remote = InitRemote
  /\ secure = ClosedSecurePopup
  /\ security = InitSecurity
  /\ online = FALSE
  /\ pending = <<>>
  /\ inflight = <<>>
  /\ hist = <<>>

NextResist ==
  \/ OpenPopup
  \/ ClosePopup
  \/ AddSite(OneSiteInputs)
  \/ storage.stats.sessionsCompleted = 0 /\ StartBlockSession({TickDuration}, {TickDuration})
  \/ AttemptEmergencyDisable
  \/ StayStrong
  \/ InterventionTimeout
  \/ BgHandleMessage
  \/ BgTick
  \/ AdvanceClockTick

SpecResist == InitResist /\ [][NextResist /\ UNCHANGED <<hist, pending, inflight>>]_vars

\* ------------------------------------------------------------------ claims
\* the attempt counter of the popup's session after the step
AttemptsAfter == Val(popup'.activeSession).emergencyAttempts

\* C5: the first and the second attemptEmergencyDisable on a session show the
\* intervention and change nothing but the attempt counter: the stored totalScore
\* and currentStreak, whether the stored session is active, its startTime, endTime
\* and site snapshot, and the installed blocking rules are as before the attempt.
C5_AttemptChangesOnlyCounter ==
  [][(AttemptEmergencyDisable /\ AttemptsAfter < EmergencyThreshold) =>
       /\ popup'.modal = "intervention"
       /\ storage'.totalScore = storage.totalScore
       /\ storage'.currentStreak = storage.currentStreak
       /\ rules' = rules
       /\ (storage'.activeSession = Null) = (storage.activeSession = Null)
       /\ storage.activeSession # Null =>
            /\ Val(storage'.activeSession).startTime = Val(storage.activeSession).startTime
            /\ Val(storage'.activeSession).endTime = Val(storage.activeSession).endTime
            /\ Val(storage'.activeSession).blockedSites =
                 Val(storage.activeSession).blockedSites]_vars

\* C3: for an active session and sequential ticks before endTime, the daily bonus
\* granted since the session's start is 10 * floor((now - startTime) / 1 day) at
\* the last tick, however many ticks ran and however they were spaced.
C3_DailyBonusOncePerDay ==
  (storage.activeSession # Null /\ hist.ticks > 0) =>
    hist.granted =
      DailyBonusPerDay * DaysSince(Val(storage.activeSession).startTime, hist.lastTick)

\* five ticks have run and two days have elapsed at the last one: 20 points
C3_FiveTicksTwoDays ==
  /\ storage.activeSession # Null
  /\ hist.ticks = 5
  /\ DaysSince(Val(storage.activeSession).startTime, hist.lastTick) = 2
  /\ hist.granted = 20

\* the sessions of the user's remote rows whose status is active
ActiveRemoteSessions == {i \in 1..Len(remote.sessions) : remote.sessions[i].status = "active"}

\* C1: in every reachable state the owner has at most one session whose status
\* is active, in the remote user_sessions rows as in local storage.
C1_AtMostOneActiveSession == Cardinality(ActiveRemoteSessions) <= 1

\* C2: the stored totalScore is never negative, in the local store (and the popup's
\* copy of it) and in the remote store.
C2_ScoreNeverNegative ==
  /\ storage.totalScore >= 0
  /\ popup.totalScore >= 0
  /\ remote.total_score >= 0

\* an emergency disable found fewer than 500 points and left 0, with a remote total
C2_PenaltyClamped ==
  /\ hist.penalised > 0 /\ hist.penalised < EmergencyPenaltyPoints
  /\ storage.totalScore = 0
  /\ inbox # <<>> /\ inbox[Len(inbox)].action = "emergencyDisable"
  /\ remote.total_score > 0

\* C10: after LocalAwards awards made offline and a load from the backend once
\* online, the remote total is the remote total from before plus the local deltas.
C10_OfflineAwardsReachRemote ==
  (hist.synced /\ hist.awards = LocalAwards) =>
    remote.total_score = hist.base + hist.deltas

\* C7: a checkRateLimit call for an action with configured (max, window) at time t
\* passes and records t iff fewer than max passed calls of that action were
\* recorded in the trailing window (t - window, t]; otherwise it throws.
C7_PassesIffFewerThanMax ==
  hist.checked => (hist.ok <=> hist.prior < RateLimits[hist.action].max)

\* five add_site calls passed within the hour, a sixth was refused, and a call made
\* once the window had elapsed passed again
C7_RefusedThenPassedAfterWindow ==
  /\ hist.checked /\ hist.ok /\ hist.action = "add_site"
  /\ Len(hist.successes["add_site"]) = 6
  /\ hist.successes["add_site"][5] = 0
  /\ hist.successes["add_site"][6] = RateLimits["add_site"].window

\* C8: of the add_site calls in flight at once, under every interleaving at most
\* max = 5 pass the rate limiter within one window.
C8_AtMostMaxPassPerWindow ==
  LET times == hist.successes["add_site"]
  IN \A i \in 1..Len(times) :
       Cardinality({j \in 1..Len(times) :
                      times[j] >= times[i] /\ times[j] < times[i] + RateLimits["add_site"].window})
         <= RateLimits["add_site"].max

\* six add_site calls were in flight together: five are past the rate limiter, the
\* sixth has just been refused by it
C8_SixConcurrentFivePass ==
  /\ hist.checked /\ ~hist.ok /\ hist.action = "add_site"
  /\ BagCardinality(security.calls) = 5
  /\ \A c \in BagToSet(security.calls) :
       c.action = "add_site" /\ c.data.timestamp = now /\ c.stage \notin {"validate", "timestamp"}

\* the popup's form is confirmed with a reason
LocalConfirmed ==
  /\ ConfirmEmergencyDisable
  /\ inbox'[Len(inbox')].data.reason # ""

\* the secure popup's performSecureEmergencyDisable(reason) returns from its call
SecureConfirmed(c) ==
  /\ c.action = "emergency_disable" /\ StageRank(c.stage) = 6
  /\ CallStep(c)

\* C4: a confirmed emergency disable with a non-empty reason sets currentStreak to
\* 0 and totalScore to max(0, previous totalScore - 500), leaves no active session
\* and removes the blocking rules, in the popup (local store) and in the secure
\* popup (the user's remote rows and what the popup holds).
C4_ConfirmResetsAndPenalises ==
  [][/\ LocalConfirmed =>
          /\ storage'.currentStreak = 0
          /\ storage'.totalScore = EmergencyPenalty(popup.totalScore)
          /\ storage'.activeSession = Null
          /\ rules' = {}
     /\ \A c \in BagToSet(security.calls) : SecureConfirmed(c) =>
          /\ remote'.current_streak = 0
          /\ remote'.total_score = EmergencyPenalty(remote.total_score)
          /\ ActiveRows(remote') = <<>>
          /\ secure'.currentStreak = Some(0)
          /\ secure'.totalScore = Some(EmergencyPenalty(remote.total_score))
          /\ secure'.activeSession = Null
          /\ rules' = {}]_vars

\* C6: an emergency disable is confirmed only after at least 3 attempts on the
\* session: the confirm step is not taken while fewer than 3 attempts were made,
\* in the popup and in the secure popup.
C6_ConfirmOnlyAfterThreeAttempts ==
  [][/\ ConfirmEmergencyDisable =>
          Val(popup.activeSession).emergencyAttempts >= EmergencyThreshold
     /\ (SecureConfirmEmergencyDisable /\ security'.calls # security.calls) =>
          hist.secureAttempts >= EmergencyThreshold]_vars

\* the action_count of the user's row of user_action_counts, 0 without a row
ActionCount(db, action) ==
  LET rows == SelectSeq(db.action_counts, LAMBDA row : row.action_type = action)
  IN IF rows = <<>> THEN 0 ELSE rows[1].action_count

\* the points the decay thresholds give an add_site award after `prior` occurrences
DecayedAddSitePoints(prior) ==
  IF prior < 10 THEN 10 ELSE IF prior < 50 THEN 8 ELSE IF prior < 100 THEN 6 ELSE 4

\* C9: each successful add_site award increments the occurrence count of
\* (user, add_site) by one, and the k-th award's points follow the decay thresholds
\* on the k - 1 prior occurrences.
C9_AwardsCountedAndDecayed ==
  /\ ActionCount(remote, "add_site") = hist.addSiteAwards
  /\ hist.addSiteAwards > 0 => hist.lastPoints = DecayedAddSitePoints(hist.addSiteAwards - 1)

LocalCompleted ==
  /\ storage.activeSession # Null /\ storage'.activeSession = Null
  /\ inbox' = inbox \/ Len(inbox') < Len(inbox)

\* the secure popup's completeSecureSession() returns from its call
SecureCompleted(c) ==
  /\ c.action = "complete_session" /\ StageRank(c.stage) = 6
  /\ CallStep(c)

\* C12: a natural completion awards exactly daysCompleted * 100 points, adds
\* daysCompleted to currentStreak and one to the sessions-completed counter (on
\* local storage), and the same points and streak on the user's remote rows when
\* the secure popup completes the session.
C12_CompletionAwardsDaysTimesHundred ==
  [][/\ LocalCompleted =>
          LET days == DaysSince(Val(storage.activeSession).startTime, now)
          IN /\ storage'.totalScore = storage.totalScore + days * CompletePointsPerDay
             /\ storage'.currentStreak = storage.currentStreak + days
             /\ storage'.stats.sessionsCompleted = storage.stats.sessionsCompleted + 1
     /\ \A c \in BagToSet(security.calls) : SecureCompleted(c) =>
          LET days == DaysSince(ActiveRows(remote)[1].start_time, now)
          IN /\ remote'.total_score = remote.total_score + days * CompletePointsPerDay
             /\ remote'.current_streak = remote.current_streak + days]_vars

\* the popup's startBlockSession runs while the stored session is still running
StartedWhileActive ==
  /\ storage.activeSession # Null /\ Val(storage.activeSession).endTime > now
  /\ StartBlockSession(OneDay, OneDayOrInvalid)

\* C13: a start-session request made while the owner has an active session changes
\* nothing: the session, the score (local and remote), the remote rows and the
\* blocking rules stay as they were and no start bonus is awarded.
C13_StartWhileActiveChangesNothing ==
  [][StartedWhileActive =>
       /\ storage' = storage
       /\ remote' = remote
       /\ rules' = rules]_vars

\* the popup's startBlockSession runs on an empty site list or on a number of days
\* outside [1, 365]
InvalidStart ==
  /\ popup.open /\ popup.modal = "none" /\ popup.view = "inactive" /\ inbox = <<>>
  /\ \E custom \in BOOLEAN : \E days \in AnyDays :
       /\ popup.blockedSites = <<>> \/ days \notin MinDays..MaxDays
       /\ Commit(StartBlockSessionStep(World, custom, days))
  /\ UNCHANGED <<now, online>>

\* C14: a start-session request with a duration outside [1, 365] (custom field or
\* preset option) or with an empty site list is rejected: it creates no session,
\* installs no blocking rules, sends nothing to the background and awards no points.
C14_InvalidStartRejected ==
  [][InvalidStart =>
       /\ storage' = storage
       /\ rules' = rules
       /\ inbox' = inbox
       /\ remote' = remote
       /\ popup'.activeSession = popup.activeSession
       /\ popup'.totalScore = popup.totalScore]_vars

\* the popup's startBlockSession succeeds with a valid number of days d: offline on
\* local storage, or online through the backend
SuccessfulStart(d) ==
  /\ popup.open /\ popup.modal = "none" /\ popup.view = "inactive" /\ inbox = <<>>
  /\ popup.blockedSites # <<>>
  /\ popup.backend => online
  /\ \E custom \in BOOLEAN : Commit(StartBlockSessionStep(World, custom, d))
  /\ UNCHANGED <<now, online>>

\* C15: a successful start with d days creates an active session with endTime =
\* startTime + d days and emergencyAttempts = 0, and increases the owner's total
\* score by exactly d * 50, once: the local score on the offline path, the remote
\* score (with the new active row) on the authenticated path.
C15_StartCreatesSessionAndAwardsOnce ==
  [][\A d \in StartDays : SuccessfulStart(d) =>
       /\ storage'.activeSession # Null
       /\ LET session == Val(storage'.activeSession)
          IN /\ session.startTime = now
             /\ session.endTime = now + d * Day
             /\ session.emergencyAttempts = 0
       /\ IF popup.backend
          THEN /\ remote'.total_score = remote.total_score + d * StartPointsPerDay
               /\ Len(remote'.sessions) = Len(remote.sessions) + 1
               /\ LET row == remote'.sessions[Len(remote'.sessions)]
                  IN /\ row.status = "active" /\ row.emergency_attempts = 0
                     /\ row.end_time = row.start_time + d * Day
               /\ storage'.totalScore = remote'.total_score
          ELSE /\ storage'.totalScore = storage.totalScore + d * StartPointsPerDay
               /\ remote' = remote]_vars

\* a two-day session was started after one site was added: the score holds the
\* site's points and the start bonus of two days
C15_TwoDaySessionStarted ==
  /\ storage.activeSession # Null
  /\ Val(storage.activeSession).endTime = Val(storage.activeSession).startTime + 2 * Day
  /\ popup.open /\ popup.view = "active"
  /\ storage.totalScore = AddSitePoints + 2 * StartPointsPerDay

\* the blocked_sites of the user's session rows
RemoteSnapshots(db) == [i \in 1..Len(db.sessions) |-> db.sessions[i].blocked_sites]

\* C16: an add-site or remove-site operation on the live list made while a session
\* is running leaves the session's blockedSites (in local storage and in the
\* user's session rows) and the set of enforced domains as they were.
C16_SnapshotImmutable ==
  [][(/\ AddSite(RawInputs) \/ RemoveSite
      /\ storage.activeSession # Null
      /\ Val(storage.activeSession).endTime > now) =>
       /\ storage'.activeSession # Null
       /\ Val(storage'.activeSession).blockedSites = Val(storage.activeSession).blockedSites
       /\ RemoteSnapshots(remote') = RemoteSnapshots(remote)
       /\ rules' = rules]_vars

\* a session runs on the list [a.com] while the live list has gained b.com
C16_LiveListChangedUnderSession ==
  /\ storage.activeSession # Null
  /\ Val(storage.activeSession).blockedSites = <<"a.com">>
  /\ Val(storage.activeSession).endTime > now
  /\ "b.com" \in Range(storage.blockedSites)
  /\ RuleSites(rules) = {"a.com"}

\* C17: when invocations of updateSession() on one active session overlap, under
\* every interleaving of their reads and writes the score has risen, since the
\* first of them read storage, by no more than 10 points per day elapsed and not
\* yet granted then: no day's bonus is granted twice.
C17_OverlappingTicksGrantOnce ==
  (hist.base # Null /\ storage.activeSession # Null) =>
    storage.totalScore - Val(hist.base).score
      <= DailyBonus(Val(storage.activeSession), now) - Val(hist.base).last

\* two overlapping invocations both found the first day's bonus to grant, and the
\* score has risen by one day's bonus
C17_TwoOverlappingGrants ==
  /\ hist.grants = 2 /\ pending = <<>> /\ hist.base # Null
  /\ storage.activeSession # Null
  /\ storage.totalScore = Val(hist.base).score + DailyBonusPerDay

\* the step is a start: the popup tells the background of the session it stored
SessionStartedStep ==
  /\ Len(inbox') = Len(inbox) + 1
  /\ inbox'[Len(inbox')].action = "sessionStarted"
  /\ storage'.activeSession = Some(inbox'[Len(inbox')].session)

\* C18: a session moves only from none to active (by a start) and from active to
\* completed or emergency-disabled: a session that has ended never becomes the
\* active session again, and an emergency disable is only ever applied to the
\* session that is active.
C18_EndedSessionStaysEnded ==
  [][/\ (storage.activeSession = Null /\ storage'.activeSession # Null) => SessionStartedStep
     /\ LocalConfirmed => storage.activeSession = popup.activeSession]_vars

C20_UnreachableBackendAppliedLocally ==
  (hist.site # Null /\ hist.remoteDown /\ ~hist.listed) =>
    /\ Includes(storage.blockedSites, Val(hist.site))
    /\ storage.totalScore = hist.score + AddSitePoints

\* C21: once no updateScore call is in flight, the remote total is the clamped
\* running sum of the deltas of all the calls made.
C21_TotalReflectsEveryDelta ==
  inflight = <<>> => remote.total_score = hist.sum

\* the requests of `order` took effect in the order they were submitted in
Rank(seq, x) == CHOOSE i \in 1..Len(seq) : seq[i] = x
InSubmissionOrder(order) ==
  \A i, j \in 1..Len(order) :
    i < j => Rank(hist.submitted, order[i]) < Rank(hist.submitted, order[j])

\* C22: add-site requests of one user take effect in submission order: their
\* rate-limit slots, their occurrence-count reads, their blocks and their score
\* updates follow the order of the clicks.
C22_EffectsInSubmissionOrder ==
  /\ InSubmissionOrder(hist.limited)
  /\ InSubmissionOrder(hist.counted)
  /\ InSubmissionOrder(hist.logged)
  /\ InSubmissionOrder(hist.scored)

\* C23: with the popup connected to the backend and no message waiting for the
\* background, the stored total score equals the remote total score (the program
\* holds no pending deltas that could account for a difference).
C23_LocalTotalEqualsRemote ==
  (popup.open /\ popup.backend /\ inbox = <<>>) =>
    storage.totalScore = remote.total_score

\* C24: the emergencyAttempts counter of the stored session and of the popup's
\* session is never below 0 and never above 3.
C24_AttemptsNeverAboveThree ==
  /\ storage.activeSession # Null =>
       Val(storage.activeSession).emergencyAttempts \in 0..EmergencyThreshold
  /\ popup.activeSession # Null =>
       Val(popup.activeSession).emergencyAttempts \in 0..EmergencyThreshold

\* C25: a confirm with an empty reason disables nothing: no emergencyDisable
\* message (sent by performEmergencyDisable once it has cleared the session, the
\* streak, the penalty and the rules) carries an empty reason.
C25_EmptyReasonDisablesNothing ==
  \A i \in 1..Len(inbox) :
    inbox[i].action = "emergencyDisable" => inbox[i].data.reason # ""

NoRepeats(seq) == \A i, j \in 1..Len(seq) : i # j => seq[i] # seq[j]

C27_DaysCompletedClamped ==
  storage.stats.totalCleanDays <= storage.stats.sessionsCompleted * MinDays

\* the blocks of the start_session requests that were awarded
StartBlocks == SelectSeq(remote.blocks, LAMBDA block : block.action_type = "start_session")

\* C28: of the start_session requests awarded through the pipeline, no more than
\* 3 fall within any 86400 s: the 4th within a day of three accepted ones is not
\* awarded.
C28_StartSessionRateLimited ==
  \A i \in 1..Len(StartBlocks) :
    Cardinality({j \in 1..i :
                   StartBlocks[i].block_data.timestamp - StartBlocks[j].block_data.timestamp
                     < RateLimits.session_start.window})
      <= RateLimits.session_start.max

\* the policy as stated: the base of the fixed table times the multiplier of the
\* lifetime count (in tenths), rounded down
PolicyBase(action, data) ==
  CASE action = "add_site" -> 10
    [] action = "start_session" -> data.duration * 50
    [] action = "complete_session" -> data.daysCompleted * 100
    [] action = "daily_bonus" -> 10
    [] action \in {"panic_mode", "emergency_resist"} -> 25
PolicyTenths(count) ==
  IF count < 10 THEN 10 ELSE IF count < 50 THEN 8 ELSE IF count < 100 THEN 6 ELSE 4
PolicyCount ==
  IF remote.action_counts = <<>> THEN 0 ELSE remote.action_counts[1].action_count

\* C29: every evaluation of the point policy returns floor(base * multiplier),
\* with complete_session's base daysCompleted * 100 for every daysCompleted >= 0.
C29_PointsAreBaseTimesMultiplier ==
  \A i \in 1..Len(hist.points) :
    hist.points[i] = (PolicyBase(hist.action, hist.data) * PolicyTenths(PolicyCount)) \div 10

\* the step is the click on the intervention's "I'll Stay Strong" button
StayedStrong ==
  /\ popup.modal = "intervention" /\ popup'.open /\ popup'.modal = "none"
  /\ <<storage, popup.totalScore>> # <<storage', popup'.totalScore>>

\* C30: the resist click on a session whose time is not up is offered only with
\* fewer than 3 attempts counted, adds 25 points to the stored score, and leaves
\* the stored session (status, endTime, site snapshot, emergencyAttempts), the
\* streak and the blocking rules as they were.
C30_ResistAwardsAndKeepsSession ==
  [][(StayedStrong /\ Val(popup.activeSession).endTime - now > 0) =>
       /\ Val(popup.activeSession).emergencyAttempts < EmergencyThreshold
       /\ storage'.totalScore = storage.totalScore + ResistPoints
       /\ storage'.activeSession = storage.activeSession
       /\ storage'.currentStreak = storage.currentStreak
       /\ rules' = rules]_vars

\* C31: the first block's previous_hash is "0", every later block's previous_hash
\* is the hash of the block inserted right before it, and no two blocks share a
\* previous_hash.
C31_ChainIsLinear ==
  \A i \in 1..Len(remote.blocks) :
    /\ remote.blocks[i].previous_hash =
         (IF i = 1 THEN <<"0">> ELSE remote.blocks[i - 1].block_hash)
    /\ \A j \in 1..Len(remote.blocks) :
         i # j => remote.blocks[i].previous_hash # remote.blocks[j].previous_hash

\* ---------------------------------------------------------------- SpecLoad
\* init() of the popup of a signed-in user, one await at a time: initializeAuth()
\* connects to the backend, then loadData() fetches from it, and the network may
\* change in between. hist records how far init() has come and where loadData()
\* took its values from.
InitLoad ==
  /\ now = 0
  /\ storage = InitStorage
  /\ popup = ClosedPopup
  /\ rules = {}
  /\ alarm = FALSE
  /\ inbox = <<>>
  /\ remote = InitRemote
  /\ secure = ClosedSecurePopup
  /\ security = InitSecurity
  /\ online \in BOOLEAN
  /\ pending = <<>>
  /\ inflight = <<>>
  /\ hist = [phase |-> "closed", source |-> "none"]

\* initializeAuth(): backendConnection.initialize() succeeds, or showOfflineMode()
InitializeAuth ==
  /\ ~popup.open
  /\ popup' = [ClosedPopup EXCEPT !.open = TRUE, !.backend = online,
                                  !.offlineMode = ~online]
  /\ hist' = [phase |-> "auth", source |-> "none"]
  /\ UNCHANGED <<now, storage, rules, alarm, inbox, remote, online, secure, security>>

\* await this.loadData(); this.updateDisplay(): the end of init()
LoadDataStep ==
  /\ popup.open /\ hist.phase = "auth"
  /\ Commit(UpdateDisplay(LoadData(World)))
  /\ hist' = [phase |-> "loaded",
              source |-> IF popup.backend /\ online THEN "remote" ELSE "local"]
  /\ UNCHANGED <<now, online>>

NextLoad ==
  \/ InitializeAuth
  \/ LoadDataStep
  \/ ClosePopup /\ hist' = [phase |-> "closed", source |-> "none"]
  \/ hist.phase = "loaded" /\ AddSite(RawInputs) /\ UNCHANGED hist
  \/ hist.phase = "loaded" /\ RemoveSite /\ UNCHANGED hist
  \/ ToggleNetwork /\ UNCHANGED hist

SpecLoad == InitLoad /\ [][NextLoad /\ UNCHANGED <<pending, inflight>>]_vars

\* C32: when loadData() has fetched from the backend, the popup and the local cache
\* hold the backend's score, streak and sites and the popup is not offline; when the
\* fetch was not made or failed, the popup holds the local cache's values and its
\* offline flag is set.
C32_LoadFallsBackOffline ==
  [][hist.phase = "auth" /\ hist'.phase = "loaded" =>
       IF hist'.source = "remote"
       THEN /\ popup'.totalScore = remote.total_score
            /\ popup'.currentStreak = remote.current_streak
            /\ popup'.blockedSites = GetBlockedSites(remote)
            /\ storage'.totalScore = remote.total_score
            /\ storage'.currentStreak = remote.current_streak
            /\ storage'.blockedSites = GetBlockedSites(remote)
            /\ ~popup'.offlineMode
       ELSE /\ popup'.blockedSites = storage.blockedSites
            /\ popup'.totalScore = storage.totalScore
            /\ popup'.offlineMode]_vars

\* --------------------------------------------------------------- SpecRules
\* Sessions over site lists of different sizes, on the local path. The list is in
\* storage when the behaviour starts (the user added the sites in earlier popups;
\* penalties have taken the score back to 0): one site, as many sites as the popup
\* removes rule ids, and more than that. A message to the background is handled
\* before the clock moves on.
MaxSitesOver == 1          \* sites beyond the ids the popup removes
ListSizes == {1, PopupRuleIds, PopupRuleIds + MaxSitesOver}
SiteList(n) == [index \in 1..n |-> ToString(index)]
InitRules ==
  /\ now = 0
  /\ \E n \in ListSizes : storage = [InitStorage EXCEPT !.blockedSites = SiteList(n)]
  /\ popup = ClosedPopup
  /\ rules = {}
  /\ alarm = FALSE
  /\ inbox = <<>>
  /\ remote = InitRemote
  /\ secure = ClosedSecurePopup
  /\ security = InitSecurity
  /\ online = FALSE
  /\ pending = <<>>
  /\ inflight = <<>>
  /\ hist = <<>>

NextRules ==
  \/ OpenPopup
  \/ ClosePopup
  \/ StartBlockSession(OneDay, OneDay)
  \/ AttemptEmergencyDisable
  \/ ConfirmEmergencyDisable
  \/ CancelEmergencyForm
  \/ StayStrong
  \/ InterventionTimeout
  \/ BgHandleMessage
  \/ BgTick
  \/ inbox = <<>> /\ BgStartup
  \/ inbox = <<>> /\ AdvanceClock

SpecRules == InitRules /\ [][NextRules /\ UNCHANGED <<hist, pending, inflight>>]_vars

\* C33: while storage holds an active session the installed rules redirect exactly
\* the domains of the session's snapshot, and when storage holds no session no rule
\* is installed, whatever the size of the site list.
C33_RulesFollowSession ==
  IF storage.activeSession # Null
  THEN RuleSites(rules) = Range(Val(storage.activeSession).blockedSites)
  ELSE rules = {}

\* --------------------------------------------------------------- SpecAlarm
\* The session and its alarm, on the local path: the user opens and closes the
\* popup, starts the first session and presses the emergency button; the service
\* worker restarts at any time. The fair specification has chrome deliver every
\* message and fire the 'sessionUpdate' alarm for as long as it is scheduled.
InitAlarm ==
  /\ now = 0
  /\ storage = InitStorage
  /\ popup = ClosedPopup
  /\ rules = {}
  /\ alarm = FALSE
  /\ inbox = <<>>
  /\ remote = InitRemote
  /\ secure = ClosedSecurePopup
  /\ security = InitSecurity
  /\ online = FALSE
  /\ pending = <<>>
  /\ inflight = <<>>
  /\ hist = <<>>

NextAlarm ==
  \/ OpenPopup
  \/ ClosePopup
  \/ AddSite(OneSiteInputs)
  \/ storage.stats.sessionsCompleted = 0 /\ StartBlockSession(OneDay, OneDay)
  \/ AttemptEmergencyDisable
  \/ StayStrong
  \/ InterventionTimeout
  \/ BgHandleMessage
  \/ BgTick
  \/ BgStartup
  \/ inbox = <<>> /\ AdvanceClock

SpecAlarm ==
  /\ InitAlarm
  /\ [][NextAlarm /\ UNCHANGED <<hist, pending, inflight>>]_vars
  /\ WF_vars(BgHandleMessage /\ UNCHANGED <<hist, pending, inflight>>)
  /\ WF_vars(BgTick /\ UNCHANGED <<hist, pending, inflight>>)

Expired == storage.activeSession # Null /\ now >= Val(storage.activeSession).endTime

\* C34: while storage holds an active session the 'sessionUpdate' alarm is scheduled
\* (once the background has handled the popup's message), and a stored session
\* whose end time has passed is eventually completed: no active session, no rules.
C34_AlarmCompletesSession ==
  /\ [](storage.activeSession # Null /\ inbox = <<>> => alarm)
  /\ (Expired ~> (storage.activeSession = Null /\ rules = {}))

\* C35: when the background handles an emergencyDisable message, storage's emergency
\* log afterwards is the log before (empty when there was none) with the message's
\* entry appended.
C35_EmergencyDisableLogged ==
  [][(inbox # <<>> /\ Head(inbox).action = "emergencyDisable" /\ inbox' = Tail(inbox)) =>
       storage'.emergencyLog =
         Some(Append(IF storage.emergencyLog = Null THEN <<>> ELSE Val(storage.emergencyLog),
                     Head(inbox).data))]_vars

\* ------------------------------------------------------------ SpecComplete
\* One session of one day with one site, ended by whoever sees it expired
\* first: the popup when it is opened or redraws, the background when the alarm
\* fires. The alarm's handler reads storage and completes the session in a later
\* step, so the popup can run in between. hist counts the sessions started.
InitComplete ==
  /\ now = 0
  /\ storage = InitStorage
  /\ popup = ClosedPopup
  /\ rules = {}
  /\ alarm = FALSE
  /\ inbox = <<>>
  /\ remote = InitRemote
  /\ secure = ClosedSecurePopup
  /\ security = InitSecurity
  /\ online = FALSE
  /\ pending = <<>>
  /\ inflight = <<>>
  /\ hist = [sessions |-> 0]

StartComplete ==
  /\ hist.sessions = 0
  /\ StartBlockSession(OneDay, OneDay)
  /\ hist' = IF popup'.activeSession # Null THEN [sessions |-> 1] ELSE hist
  /\ UNCHANGED pending

NextComplete ==
  \/ OpenPopup /\ UNCHANGED <<hist, pending>>
  \/ ClosePopup /\ UNCHANGED <<hist, pending>>
  \/ AddSite(OneSiteInputs) /\ hist.sessions = 0 /\ UNCHANGED <<hist, pending>>
  \/ StartComplete
  \/ BgHandleMessage /\ UNCHANGED <<hist, pending>>
  \/ TickRead /\ UNCHANGED hist
  \/ \E i \in 1..Len(pending) : TickWrite(i) /\ UNCHANGED hist
  \/ AdvanceClock /\ UNCHANGED <<hist, pending>>

SpecComplete == InitComplete /\ [][NextComplete /\ UNCHANGED inflight]_vars

\* C36: storage never shows more completions than sessions were started, nor more
\* clean days and streak than the one session lasted, nor more points than the one
\* site, the start and one completion bonus give.
C36_CompletedAtMostOnce ==
  /\ storage.stats.sessionsCompleted <= hist.sessions
  /\ storage.stats.totalCleanDays <= hist.sessions * MinDays
  /\ storage.currentStreak <= hist.sessions * MinDays
  /\ storage.totalScore <=
       AddSitePoints + hist.sessions * (MinDays * StartPointsPerDay
                                        + MinDays * CompletePointsPerDay)

\* -------------------------------------------------------------- SpecAwards
\* Local awards from both sides during one session of TickDuration days: the popup
\* adds to its in-memory total and stores it (add site, start, stay strong), the
\* background adds the daily bonus to the total it read from storage. hist.sum is
\* the sum of the points the handlers awarded.
InitAwards ==
  /\ now = 0
  /\ storage = InitStorage
  /\ popup = ClosedPopup
  /\ rules = {}
  /\ alarm = FALSE
  /\ inbox = <<>>
  /\ remote = InitRemote
  /\ secure = ClosedSecurePopup
  /\ security = InitSecurity
  /\ online = FALSE
  /\ pending = <<>>
  /\ inflight = <<>>
  /\ hist = [sum |-> 0]

PopupAward == hist' = [sum |-> hist.sum + popup'.totalScore - popup.totalScore]
BackgroundAward == hist' = [sum |-> hist.sum + storage'.totalScore - storage.totalScore]

NextAwards ==
  \/ OpenPopup /\ UNCHANGED hist
  \/ ClosePopup /\ UNCHANGED hist
  \/ AddSite(OneSiteInputs) /\ PopupAward
  \/ storage.activeSession = Null /\ StartBlockSession({TickDuration}, {TickDuration})
       /\ PopupAward
  \/ AttemptEmergencyDisable /\ UNCHANGED hist
  \/ StayStrong /\ PopupAward
  \/ InterventionTimeout /\ UNCHANGED hist
  \/ BgHandleMessage /\ UNCHANGED hist
  \/ BgTick /\ BackgroundAward
  \/ AdvanceClockTick /\ UNCHANGED hist

SpecAwards == InitAwards /\ [][NextAwards /\ UNCHANGED <<pending, inflight>>]_vars

\* C37: the stored total is the sum of all the points the popup and the background
\* have awarded since the (zero) initial total.
C37_NoAwardLost == storage.totalScore = Max(0, hist.sum)

\* C38: as long as storage holds the same session, no step lowers the session's
\* stored lastDailyBonus.
C38_LastDailyBonusNeverDecreases ==
  [][(/\ storage.activeSession # Null
      /\ storage'.activeSession # Null
      /\ Val(storage'.activeSession).startTime = Val(storage.activeSession).startTime) =>
       Val(storage'.activeSession).lastDailyBonus >=
         Val(storage.activeSession).lastDailyBonus]_vars

\* C39: a start on the authenticated path that fails (the backend cannot be
\* reached) leaves the popup's session, local storage, the remote rows, the rules
\* and the scores as they were: no part of the start has taken effect.
C39_FailedStartChangesNothing ==
  [][(/\ StartBlockSession(StartDays, StartDays)
      /\ popup.backend /\ ~online
      /\ popup.blockedSites # <<>>) =>
       /\ popup'.activeSession = popup.activeSession
       /\ popup'.totalScore = popup.totalScore
       /\ storage' = storage
       /\ remote' = remote
       /\ rules' = rules]_vars

====
